---- MODULE Spec2Model ----
(***************************************************************************)
(* A model of the simulation core of space-invaders-js: the object pools  *)
(* (js/game.js ObjectPool, weapons/ProjectileSystem), the QuadTree, the   *)
(* fixed-step GameLoop and the WaveManager.  Each component has its own   *)
(* variables, its own actions (one per public operation) and its own      *)
(* specification; the components do not share state.                      *)
(***************************************************************************)
EXTENDS Integers, Sequences, FiniteSets, TLC

(***************************************************************************)
(* Generic helpers on sequences.                                           *)
(***************************************************************************)
Range(s) == { s[i] : i \in 1..Len(s) }

NoDup(s) == \A i, j \in 1..Len(s) : i # j => s[i] # s[j]

\* Array.prototype.pop: the array without its last element.
Front(s) == SubSeq(s, 1, Len(s) - 1)

\* The array without the element at (1-based) position i: splice(i, 1).
RemoveAt(s, i) == SubSeq(s, 1, i - 1) \o SubSeq(s, i + 1, Len(s))

\* Array.prototype.indexOf, 1-based; 0 when absent.
IndexOf(s, e) ==
    IF e \in Range(s) THEN CHOOSE i \in 1..Len(s) :
                               s[i] = e /\ \A j \in 1..(i - 1) : s[j] # e
    ELSE 0

\* The elements of s that satisfy keep, in order.
RECURSIVE Without(_, _)
Without(s, drop) ==
    IF s = <<>> THEN <<>>
    ELSE IF Head(s) \in drop THEN Without(Tail(s), drop)
         ELSE <<Head(s)>> \o Without(Tail(s), drop)

\* The elements of s that are in keep, in order.
RECURSIVE Only(_, _)
Only(s, keep) ==
    IF s = <<>> THEN <<>>
    ELSE IF Head(s) \in keep THEN <<Head(s)>> \o Only(Tail(s), keep)
         ELSE Only(Tail(s), keep)

(***************************************************************************)
(* Bounds of the model.                                                    *)
(***************************************************************************)
\* Instances an ObjectPool may hold in all (constructed plus grown).
MaxInstances == 3
\* Size of the ProjectileSystem pool in the model (the code's poolSize is 100).
PoolSize == 3

VARIABLES
    \* ObjectPool (js/game.js)
    opCreated,      \* number of instances createFn has produced: ids 1..opCreated
    opPool,         \* this.pool: the free list, an array used as a stack
    opActive,       \* this.active: a Set
    opFields,       \* the fields of every created instance
    opLast,         \* the last call and what it returned
    \* ProjectileSystem (weapons/EnemyWeaponSystem.ts, second file)
    psPool,         \* this.projectilePool: array used as a stack
    psActive,       \* this.activeProjectiles: a Set, kept in insertion order
    psProj,         \* per projectile: initialised
    psLast,         \* the last call, what it returned, and for an update the
                    \* projectiles whose isExpired() answered true
    \* EnemyWeaponSystem (weapons/EnemyWeaponSystem.ts, first file)
    ewProjectiles,  \* this.projectiles: array of Projectile
    ewLast,         \* the last call
    \* QuadTree (engine/quadTree.ts)
    qtTree,         \* node path -> the node's own object list
    qtInserted,     \* the objects inserted since the last clear, in order
    qtPalette,      \* the kinds of object this run inserts
    \* GameLoop (gameLoop.ts)
    glRunning,      \* this.running
    glAccumulator,  \* this.accumulator
    glFrameTime,    \* this.frameTime
    glMaxFrameTime, \* this.maxFrameTime
    glRafId,        \* a frame is requested (this.rafId is a live handle)
    glPc,           \* "idle" | "updates"
    glTick,         \* the tick in progress, or the last one (a record of it)
    glRender,       \* the last interpolation this tick passed to render, num / den
    glThrown,       \* the last tick or call ended in an exception
    \* WaveManager (WaveManager.ts)
    wmCurrentWave,
    wmEnemiesSpawned,
    wmEnemiesRemaining,
    wmSpawnTimer,
    wmIsWaveActive,
    wmActiveEnemies, \* this.activeEnemies: array of enemies (ids)
    wmNextId,        \* enemies constructed so far: ids 1..wmNextId
    wmWaveFirst,     \* wmNextId when the current wave was started
    wmDestroyed,     \* enemies of the current wave reported destroyed
    wmErrored,       \* onWaveError has been notified since construction/reset
    wmElapsed,       \* the deltaTime update has added since the last startWave
    wmLast,          \* the last call and the notifications it made
    \* TimingSystem (engine/timing.ts)
    tsTargetFps,     \* this.targetFps
    tsAccumulator,   \* this.accumulator
    tsLast,          \* the last call and the deltaTime it added
    \* Game (js/game.js): the fixed-step gameLoop
    gmIsRunning,     \* this.isRunning
    gmNow,           \* performance.now()
    gmLastTime,      \* this.lastTime
    gmAccumulator,   \* this.accumulator
    gmRaf,           \* a frame callback is requested
    gmLast,          \* the last call, the deltaTime it added and its updates
    \* CollisionSystem (engine/sprite.ts, second file)
    csEntities,      \* this.entities: a Map, as its values in insertion order
    csLast,          \* the last call, the pairs it tested and what it returned
    \* GameStateManager (engine/gameState.ts)
    gsCurrentState,  \* this.currentState
    gsPreviousState, \* this.previousState
    gsStateData,     \* this.stateData
    gsCallbacks,     \* this.stateChangeCallbacks: state -> callbacks registered
    gsLast,           \* the last call, whether it threw, the callbacks it ran
    \* Enemy (entities/Enemy.ts)
    enState,         \* this.state
    enHealth,        \* this.health
    enElapsedTime,   \* this.elapsedTime
    enPosition,      \* this.position.x
    enKilled,        \* takeDamage has returned true since construction
    enLast,           \* the last call and what it returned
    \* AnimationSystem (graphics/AnimationSystem.ts)
    anAnimations,    \* this.animations: the names registered
    anCurrentState,  \* this.currentState: <<>> for null, else <<the state>>
    anOnComplete,    \* this.onAnimationComplete is a callback (not undefined)
    anLast,           \* the last call, what it returned, the callback it made
    \* SpriteManager (graphics/SpriteManager.ts)
    smSprites,         \* this.sprites: the ids that hold a resource
    smLoadingPromises, \* this.loadingPromises: id -> promise, 0 for none
    smCreated,         \* promises created so far: 1..smCreated
    smRejected,        \* the promises whose image failed to load
    smAwaiting,        \* the loadSprite calls suspended at their await
    smLast,             \* the last step and the ids it concerned
    \* Movement and shooting patterns (ai/MovementPatterns.ts,
    \* ai/ShootingPatterns.ts, ai/EnemyBehavior.ts)
    ptSpreadCount,   \* SpreadShot: this.spreadCount
    ptTime,          \* SineWavePattern of EnemyBehavior.ts: this.time
    ptAngle,         \* CircularPattern of EnemyBehavior.ts: this.angle
    ptLast           \* the last call, its arguments and result, and the
                     \* result of the call before it when that was the same
                     \* call on the same arguments

opVars == <<opCreated, opPool, opActive, opFields, opLast>>
psVars == <<psPool, psActive, psProj, psLast>>
qtVars == <<qtTree, qtInserted, qtPalette>>
glVars == <<glRunning, glAccumulator, glFrameTime, glMaxFrameTime, glRafId,
            glPc, glTick, glRender, glThrown>>
wmVars == <<wmCurrentWave, wmEnemiesSpawned, wmEnemiesRemaining, wmSpawnTimer,
            wmIsWaveActive, wmActiveEnemies, wmNextId, wmWaveFirst,
            wmDestroyed, wmErrored, wmElapsed, wmLast>>
ewVars == <<ewProjectiles, ewLast>>
tsVars == <<tsTargetFps, tsAccumulator, tsLast>>
gmVars == <<gmIsRunning, gmNow, gmLastTime, gmAccumulator, gmRaf, gmLast>>
csVars == <<csEntities, csLast>>
gsVars == <<gsCurrentState, gsPreviousState, gsStateData, gsCallbacks, gsLast>>
enVars == <<enState, enHealth, enElapsedTime, enPosition, enKilled, enLast>>
anVars == <<anAnimations, anCurrentState, anOnComplete, anLast>>
smVars == <<smSprites, smLoadingPromises, smCreated, smRejected, smAwaiting,
            smLast>>
ptVars == <<ptSpreadCount, ptTime, ptAngle, ptLast>>
earlyVars == <<opVars, psVars, qtVars, glVars, wmVars, tsVars, gmVars, ewVars,
               csVars>>
lateVars == <<gsVars, enVars, anVars, smVars, ptVars>>
vars == <<earlyVars, lateVars>>

(***************************************************************************)
(* ObjectPool, as Game.initializePools builds it: createFn makes           *)
(* {x: 0, y: 0, active: false}, resetFn sets active to false.              *)
(***************************************************************************)
\* Instances are numbered from 1 in the order of their creation; 0 stands for
\* an object that never came from the pool, and for "no instance" (null).
CreateFn == [x |-> 0, y |-> 0, active |-> FALSE]

ResetFn(obj) == [obj EXCEPT !.active = FALSE]

\* What a holder writes into a projectile it has acquired.
HeldValue == [x |-> 3, y |-> 4, active |-> TRUE]

\* new ObjectPool(createFn, resetFn, initialSize)
OPInit(initialSize) ==
    /\ opCreated = initialSize
    /\ opPool = [i \in 1..initialSize |-> i]
    /\ opActive = {}
    /\ opFields = [i \in 1..initialSize |-> CreateFn]
    /\ opLast = [op |-> "new", arg |-> 0, ret |-> 0]

\* An acquire that gives nothing when the free list is empty.
OPAcquireDrops ==
    /\ IF opPool # <<>>
       THEN /\ opActive' = opActive \cup {opPool[Len(opPool)]}
            /\ opPool' = Front(opPool)
            /\ opLast' = [op |-> "acquire", arg |-> 0,
                          ret |-> opPool[Len(opPool)]]
       ELSE /\ opLast' = [op |-> "acquire", arg |-> 0, ret |-> 0]
            /\ UNCHANGED <<opPool, opActive>>
    /\ UNCHANGED <<opCreated, opFields>>

\* acquire(): pop, or create when the free list is empty.
OPAcquire ==
    /\ IF opPool # <<>>
       THEN /\ opActive' = opActive \cup {opPool[Len(opPool)]}
            /\ opPool' = Front(opPool)
            /\ opLast' = [op |-> "acquire", arg |-> 0,
                          ret |-> opPool[Len(opPool)]]
            /\ UNCHANGED <<opCreated, opFields>>
       ELSE /\ opCreated < MaxInstances
            /\ opCreated' = opCreated + 1
            /\ opFields' = [i \in 1..(opCreated + 1) |->
                              IF i <= opCreated THEN opFields[i] ELSE CreateFn]
            /\ opActive' = opActive \cup {opCreated + 1}
            /\ opLast' = [op |-> "acquire", arg |-> 0,
                          ret |-> opCreated + 1]
            /\ UNCHANGED opPool

\* A release that does not look at the active set.
OPReleaseUnguarded(object) == TRUE

\* The guard of release: Set.prototype.delete returns whether it was present.
OPReleaseGuard(object) == object \in opActive

\* release(object)
OPRelease(object) ==
    /\ IF OPReleaseGuard(object)
       THEN /\ opActive' = opActive \ {object}
            /\ opFields' = IF object \in DOMAIN opFields
                           THEN [opFields EXCEPT ![object] = ResetFn(@)]
                           ELSE opFields
            /\ opPool' = Append(opPool, object)
       ELSE UNCHANGED <<opActive, opFields, opPool>>
    /\ opLast' = [op |-> "release", arg |-> object, ret |-> 0]
    /\ UNCHANGED opCreated

\* The holder of an acquired instance uses it (writes its fields).
OPHolderWrite(object) ==
    /\ object \in opActive
    /\ opFields' = [opFields EXCEPT ![object] = HeldValue]
    /\ opLast' = [op |-> "write", arg |-> object, ret |-> 0]
    /\ UNCHANGED <<opCreated, opPool, opActive>>

(***************************************************************************)
(* ProjectileSystem.  The Projectile class it uses (initialize, reset,     *)
(* isExpired) is not among the sources.  Of a projectile the model keeps    *)
(* one flag, initialised (set by initialize, cleared by reset); what        *)
(* isExpired answers in an update is an input of that update.               *)
(***************************************************************************)
ProjectileTypes == {"playerBasic", "enemyBasic"}

ProjectileDefault == [initialised |-> FALSE]

\* Projectile.reset()
ProjectileReset(p) == ProjectileDefault

\* Projectile.initialize(position, direction, speed, damage, lifetime, ...)
ProjectileInitialize(p) == [initialised |-> TRUE]

\* constructor: initializePool pushes poolSize fresh projectiles.
PSInit ==
    /\ psPool = [i \in 1..PoolSize |-> i]
    /\ psActive = <<>>
    /\ psProj = [i \in 1..PoolSize |-> ProjectileDefault]
    /\ psLast = [op |-> "new", type |-> "", arg |-> 0, ret |-> 0,
                expired |-> {}]

\* A returnToPool that forgets the push.
ReturnAllLosing(todo, pool, active, proj) ==
    [pool |-> pool, active |-> Without(active, Range(todo)), proj |-> proj]

\* returnToPool applied to the projectiles of the sequence todo, in order,
\* from the state (pool, active, proj).
RECURSIVE ReturnAll(_, _, _, _)
ReturnAll(todo, pool, active, proj) ==
    IF todo = <<>> THEN [pool |-> pool, active |-> active, proj |-> proj]
    ELSE ReturnAll(Tail(todo),
                   Append(pool, Head(todo)),
                   Without(active, {Head(todo)}),
                   IF Head(todo) \in DOMAIN proj
                   THEN [proj EXCEPT ![Head(todo)] = ProjectileReset(@)]
                   ELSE proj)

\* returnToPool(projectile): delete from the active set, reset, push.
ReturnToPool(projectile) ==
    ReturnAll(<<projectile>>, psPool, psActive, psProj)

\* spawnProjectile(position, direction, type, sourceId)
PSSpawnProjectile(type) ==
    /\ IF type \notin ProjectileTypes \/ psPool = <<>>
       THEN /\ psLast' = [op |-> "spawn", type |-> type, arg |-> 0, ret |-> 0,
                          expired |-> {}]
            /\ UNCHANGED <<psPool, psActive, psProj>>
       ELSE LET p == psPool[Len(psPool)] IN
            /\ psPool' = Front(psPool)
            /\ psProj' = [psProj EXCEPT ![p] = ProjectileInitialize(@)]
            /\ psActive' = Append(psActive, p)
            /\ psLast' = [op |-> "spawn", type |-> type, arg |-> 0, ret |-> p,
                          expired |-> {}]

\* The guard of removeProjectile.
PSRemoveUnguarded(projectile) == TRUE

PSRemoveGuard(projectile) == projectile \in Range(psActive)

\* removeProjectile(projectile)
PSRemoveProjectile(projectile) ==
    /\ IF PSRemoveGuard(projectile)
       THEN LET r == ReturnToPool(projectile) IN
            /\ psPool' = r.pool
            /\ psActive' = r.active
            /\ psProj' = r.proj
       ELSE UNCHANGED <<psPool, psActive, psProj>>
    /\ psLast' = [op |-> "remove", type |-> "", arg |-> projectile,
                 ret |-> 0, expired |-> {}]

\* update(deltaTime): every active projectile is updated, and those for which
\* isExpired() answers true (the projectiles of `expiring') are returned to the
\* pool, in the Set's iteration order.
PSUpdate(expiring) ==
    LET gone == Range(psActive) \cap expiring
        r == ReturnAll(Only(psActive, gone), psPool, psActive, psProj)
    IN  /\ psPool' = r.pool
        /\ psActive' = r.active
        /\ psProj' = r.proj
        /\ psLast' = [op |-> "update", type |-> "", arg |-> 0, ret |-> 0,
                      expired |-> gone]

\* clearAll(): every active projectile is returned to the pool.
PSClearAll ==
    LET r == ReturnAll(psActive, psPool, psActive, psProj) IN
    /\ psPool' = r.pool
    /\ psActive' = r.active
    /\ psProj' = r.proj
    /\ psLast' = [op |-> "clearAll", type |-> "", arg |-> 0, ret |-> 0,
                 expired |-> {}]

(***************************************************************************)
(* EnemyWeaponSystem and the Projectile of Projectile.ts.  A projectile is *)
(* followed along one axis (y, with the playfield 0..BoundsHeight; x is    *)
(* treated alike by the code): its position, velocity, the time since its  *)
(* creation, its lifespan and its active flag.  One time unit serves for   *)
(* deltaTime and for Date.now().  The shooting phase of update builds the  *)
(* projectiles from the shooting pattern's positions; what it builds in    *)
(* one update is an input (`shots').                                       *)
(***************************************************************************)
\* gameState.getBounds().height
BoundsHeight == 3

\* The most projectiles the system holds.
MaxProjectiles == 2

Lifespans == {2, 4}
Velocities == {-1, 0, 1}
StartPositions == {0, 2}
WeaponDeltaTimes == {1, 2}

\* new Projectile(config)
ProjectileNew(y, vy, lifespan) ==
    [y |-> y, vy |-> vy, age |-> 0, lifespan |-> lifespan, active |-> TRUE]

\* The clock advances by `elapsed': Date.now() - createdAt grows (followed up
\* to the lifespan).
ProjectileAged(pr, elapsed) ==
    [pr EXCEPT !.age = IF @ + elapsed < pr.lifespan THEN @ + elapsed
                       ELSE pr.lifespan]

\* Projectile.update(deltaTime): the projectile after the call.
ProjectileUpdate(pr, deltaTime) ==
    IF ~pr.active THEN pr
    ELSE LET moved == [pr EXCEPT !.y = @ + pr.vy * deltaTime]
         IN  IF moved.age >= moved.lifespan
             THEN [moved EXCEPT !.active = FALSE]
             ELSE moved

\* EnemyWeaponSystem.isProjectileOutOfBounds(projectile)
IsProjectileOutOfBounds(pr) == pr.y < 0 \/ pr.y > BoundsHeight

\* The filter callback of update: whether the projectile is kept.
EWKeeps(pr) == ~IsProjectileOutOfBounds(pr)

\* A filter callback that also drops what Projectile.update deactivated.
EWKeepsActive(pr) == pr.active /\ ~IsProjectileOutOfBounds(pr)

\* Array.prototype.filter with callback EWKeeps, over updated projectiles.
RECURSIVE EWFilter(_)
EWFilter(ps) ==
    IF ps = <<>> THEN <<>>
    ELSE IF EWKeeps(Head(ps)) THEN <<Head(ps)>> \o EWFilter(Tail(ps))
         ELSE EWFilter(Tail(ps))

\* new EnemyWeaponSystem()
EWInit ==
    /\ ewProjectiles = <<>>
    /\ ewLast = [op |-> "new"]

\* update(deltaTime), called deltaTime after the previous call: the enemies
\* that can shoot push their projectiles (shots), then every projectile is
\* updated and the out-of-bounds ones are filtered out.
EWUpdate(deltaTime, shots) ==
    LET aged == [i \in 1..Len(ewProjectiles) |->
                    ProjectileAged(ewProjectiles[i], deltaTime)]
        all == aged \o shots
        updated == [i \in 1..Len(all) |-> ProjectileUpdate(all[i], deltaTime)]
    IN  /\ Len(all) <= MaxProjectiles
        /\ ewProjectiles' = EWFilter(updated)
        /\ ewLast' = [op |-> "update"]

\* clearProjectiles()
EWClearProjectiles ==
    /\ ewProjectiles' = <<>>
    /\ ewLast' = [op |-> "clear"]

(***************************************************************************)
(* QuadTree (engine/quadTree.ts).  Lengths are in 1/32 of a unit, so that  *)
(* halving a boundary five times stays in the integers: the default        *)
(* 1000 x 1000 world is 32000 x 32000.  A node is named by its path from   *)
(* the root (the child indices 0..3); qtTree maps every existing node to   *)
(* its own object list.  A node has children iff child 0 exists.           *)
(***************************************************************************)
MAX_OBJECTS == 10
MAX_LEVELS == 5
WorldSize == 32000

\* Number of insert calls between two clears.
MaxInserts == 12

DEFAULT_BOUNDARY == [x |-> 0, y |-> 0, width |-> WorldSize, height |-> WorldSize]

Rect(x, y, w, h) == [x |-> x, y |-> y, width |-> w, height |-> h]

\* A split that puts child 0 where child 1 is.
ChildBoundaryOverlapping(b, i) ==
    LET subWidth == b.width \div 2
        subHeight == b.height \div 2
    IN  CASE i = 0 -> Rect(b.x, b.y, subWidth, subHeight)
          [] i = 1 -> Rect(b.x, b.y, subWidth, subHeight)
          [] i = 2 -> Rect(b.x, b.y + subHeight, subWidth, subHeight)
          [] OTHER -> Rect(b.x + subWidth, b.y + subHeight, subWidth, subHeight)

\* The boundaries split() gives the four children of a node with boundary b.
ChildBoundary(b, i) ==
    LET subWidth == b.width \div 2
        subHeight == b.height \div 2
    IN  CASE i = 0 -> Rect(b.x + subWidth, b.y, subWidth, subHeight)
          [] i = 1 -> Rect(b.x, b.y, subWidth, subHeight)
          [] i = 2 -> Rect(b.x, b.y + subHeight, subWidth, subHeight)
          [] OTHER -> Rect(b.x + subWidth, b.y + subHeight, subWidth, subHeight)

\* The boundary of the node at path.
RECURSIVE Boundary(_)
Boundary(path) ==
    IF path = <<>> THEN DEFAULT_BOUNDARY
    ELSE ChildBoundary(Boundary(Front(path)), path[Len(path)])

\* getIndex(rect) at a node with boundary b: 0..3, or -1.
GetIndexMissesRight(b, rect) ==
    LET verticalMidpoint == b.x + (b.width \div 2)
        horizontalMidpoint == b.y + (b.height \div 2)
        topQuadrant == rect.y < horizontalMidpoint
                       /\ rect.y + rect.height < horizontalMidpoint
        bottomQuadrant == rect.y > horizontalMidpoint
    IN  IF rect.x < verticalMidpoint
        THEN (IF topQuadrant THEN 1 ELSE IF bottomQuadrant THEN 2 ELSE -1)
        ELSE IF rect.x > verticalMidpoint
        THEN (IF topQuadrant THEN 0 ELSE IF bottomQuadrant THEN 3 ELSE -1)
        ELSE -1

GetIndex(b, rect) ==
    LET verticalMidpoint == b.x + (b.width \div 2)
        horizontalMidpoint == b.y + (b.height \div 2)
        topQuadrant == rect.y < horizontalMidpoint
                       /\ rect.y + rect.height < horizontalMidpoint
        bottomQuadrant == rect.y > horizontalMidpoint
    IN  IF rect.x < verticalMidpoint /\ rect.x + rect.width < verticalMidpoint
        THEN (IF topQuadrant THEN 1 ELSE IF bottomQuadrant THEN 2 ELSE -1)
        ELSE IF rect.x > verticalMidpoint
        THEN (IF topQuadrant THEN 0 ELSE IF bottomQuadrant THEN 3 ELSE -1)
        ELSE -1

HasNodes(t, path) == (path \o <<0>>) \in DOMAIN t

\* A split that empties the node's own list.
SplitClears(t, path) ==
    [p \in DOMAIN t \cup { path \o <<i>> : i \in 0..3 } |->
        IF p \in DOMAIN t /\ p # path THEN t[p] ELSE <<>>]

\* split(): four empty children.
Split(t, path) ==
    [p \in DOMAIN t \cup { path \o <<i>> : i \in 0..3 } |->
        IF p \in DOMAIN t THEN t[p] ELSE <<>>]

RECURSIVE InsertAt(_, _, _)
RECURSIVE Redistribute(_, _, _)

\* insert(obj) at the node path of tree t.
InsertAt(t, path, obj) ==
    LET index == GetIndex(Boundary(path), obj) IN
    IF HasNodes(t, path) /\ index # -1
    THEN InsertAt(t, path \o <<index>>, obj)
    ELSE LET t1 == [t EXCEPT ![path] = Append(@, obj)] IN
         IF Len(t1[path]) > MAX_OBJECTS /\ Len(path) < MAX_LEVELS
         THEN Redistribute(IF HasNodes(t1, path) THEN t1 ELSE Split(t1, path),
                           path, 1)
         ELSE t1

\* The while loop of insert: objects[i] moves to the child that holds it, or
\* stays and i advances (i is 1-based here).
Redistribute(t, path, i) ==
    IF i > Len(t[path]) THEN t
    ELSE LET obj == t[path][i]
             index == GetIndex(Boundary(path), obj)
         IN  IF index # -1
             THEN Redistribute(
                      InsertAt([t EXCEPT ![path] = RemoveAt(@, i)],
                               path \o <<index>>, obj),
                      path, i)
             ELSE Redistribute(t, path, i + 1)

\* retrieve(obj) at the node path: the node's own objects, then those of the
\* one child obj fits in, or of all four.
RECURSIVE Retrieve(_, _, _)
Retrieve(t, path, obj) ==
    LET index == GetIndex(Boundary(path), obj) IN
    IF ~HasNodes(t, path) THEN t[path]
    ELSE IF index # -1
         THEN t[path] \o Retrieve(t, path \o <<index>>, obj)
         ELSE t[path] \o Retrieve(t, path \o <<0>>, obj)
                      \o Retrieve(t, path \o <<1>>, obj)
                      \o Retrieve(t, path \o <<2>>, obj)
                      \o Retrieve(t, path \o <<3>>, obj)

\* The rectangles the model inserts and queries with.  Midlines of the root
\* are at 16000, of its NW child at 8000.
TinyNW     == Rect(10, 10, 100, 100)          \* fits a level-5 node
StraddleV  == Rect(15900, 100, 200, 100)      \* across the root's x midline
TouchLeft  == Rect(15000, 17000, 1000, 500)   \* right edge on the midline
InSE       == Rect(20000, 20000, 300, 300)
StraddleNW == Rect(7900, 7900, 200, 200)      \* across the NW child's midlines
PointNE    == Rect(16001, 150, 0, 0)          \* zero size, just right of it
Overhang   == Rect(31900, 100, 200, 100)      \* across the world's right edge

QTRects == {TinyNW, StraddleV, TouchLeft, InSE, StraddleNW, PointNE, Overhang}

\* The runs of the model insert objects of two kinds.
QTPalettes == { p \in SUBSET QTRects : Cardinality(p) = 2 }

QTQueries == QTRects \cup { Rect(16000, 17200, 50, 50),
                            Rect(0, 0, WorldSize, WorldSize),
                            Rect(50, 50, 7900, 7900) }

\* Rectangle b holds the whole of rectangle r.
Contains(b, r) ==
    /\ b.x <= r.x
    /\ r.x + r.width <= b.x + b.width
    /\ b.y <= r.y
    /\ r.y + r.height <= b.y + b.height

\* How often r occurs in the array s.
Occurrences(s, r) == Cardinality({ i \in DOMAIN s : s[i] = r })

\* How often r is stored in the node at path and below it.
RECURSIVE Stored(_, _, _)
Stored(t, path, r) ==
    Occurrences(t[path], r)
        + (IF HasNodes(t, path)
           THEN Stored(t, path \o <<0>>, r) + Stored(t, path \o <<1>>, r)
                + Stored(t, path \o <<2>>, r) + Stored(t, path \o <<3>>, r)
           ELSE 0)

\* The number of objects stored in the node at path and below it.
RECURSIVE SubtreeSize(_, _)
SubtreeSize(t, path) ==
    Len(t[path])
        + (IF HasNodes(t, path)
           THEN SubtreeSize(t, path \o <<0>>) + SubtreeSize(t, path \o <<1>>)
                + SubtreeSize(t, path \o <<2>>) + SubtreeSize(t, path \o <<3>>)
           ELSE 0)

\* Two rectangles share a point (touching edges count).
Overlaps(a, b) ==
    /\ a.x <= b.x + b.width
    /\ b.x <= a.x + a.width
    /\ a.y <= b.y + b.height
    /\ b.y <= a.y + a.height

(***************************************************************************)
(* GameLoop (gameLoop.ts).  Times are in 1/6 ms, so that 1000/fps is an    *)
(* integer for the rates used: 1000/60 ms is 100, MAX_FRAME_TIME is 600.   *)
(* A tick runs callbacks, and a callback may call back into the loop, so a *)
(* tick is modelled in steps: glPc is "idle" between ticks and "updates"   *)
(* inside the try block of tick, before the next evaluation of the while   *)
(* condition.  The FPS statistics (frameCount, fpsTimer, fps) are left     *)
(* out: nothing reads them but getFPS.                                     *)
(***************************************************************************)
DEFAULT_FPS == 60
MAX_FRAME_TIME == 600

\* 1000 / fps, in 1/6 ms.
FrameTimeOf(fps) == 6000 \div fps

\* Rates passed to setTargetFPS, and raw times between two frames.
TargetRates == {20, 60, 120}
\* A rate below MIN_FPS, asked of the constructor and of setTargetFPS
\* between ticks.
SlowRate == {10}
ElapsedTimes == {0, 100, 250, 700}

\* What an update callback may do before it returns.
Behaviour(kind, fps) == [kind |-> kind, fps |-> fps]

UpdateBehaviours ==
    { Behaviour(k, 0) : k \in {"none", "stop", "start", "restart", "throw"} }
        \cup { Behaviour("setTargetFPS", f) : f \in TargetRates }

NoRender == [called |-> FALSE, num |-> 0, den |-> 1]

\* The record of a tick: `expect' is the accumulator on entry plus the clamped
\* elapsed time minus the frame time on entry for every update run so far,
\* and n the number of updates that have returned.
NoTick == [expect |-> 0, ft |-> 0, n |-> 0, clean |-> TRUE, dtOk |-> TRUE,
           done |-> FALSE]

\* The highest value the accumulator is let to reach on entering a tick (a
\* beforeUpdate that throws every frame lets it grow without limit).
MaxAccumulator == 900

\* new QuadTree(): a root without objects or children.
EmptyTree == [p \in {<<>>} |-> <<>>]

QTInit(palette) ==
    /\ qtTree = EmptyTree
    /\ qtInserted = <<>>
    /\ qtPalette = palette

\* insert(obj) on the root.
QTInsert(obj) ==
    /\ Len(qtInserted) < MaxInserts
    /\ qtTree' = InsertAt(qtTree, <<>>, obj)
    /\ qtInserted' = Append(qtInserted, obj)
    /\ UNCHANGED qtPalette

\* clear() on the root.
QTClear ==
    /\ qtTree' = EmptyTree
    /\ qtInserted' = <<>>
    /\ UNCHANGED qtPalette

(***************************************************************************)
(* GameLoop: the operations.                                               *)
(***************************************************************************)
\* new GameLoop(callbacks, {}): the defaults.
GLInit ==
    /\ glRunning = FALSE
    /\ glAccumulator = 0
    /\ glFrameTime = FrameTimeOf(DEFAULT_FPS)
    /\ glMaxFrameTime = MAX_FRAME_TIME
    /\ glRafId = FALSE
    /\ glPc = "idle"
    /\ glTick = NoTick
    /\ glRender = NoRender
    /\ glThrown = FALSE

\* new GameLoop(callbacks, {targetFps}); targetFps 0 stands for a config
\* without the field.
GLNew(targetFps) ==
    /\ glPc = "idle"
    /\ glRunning' = FALSE
    /\ glAccumulator' = 0
    /\ glFrameTime' = FrameTimeOf(IF targetFps = 0 THEN DEFAULT_FPS
                                  ELSE targetFps)
    /\ glMaxFrameTime' = MAX_FRAME_TIME
    /\ glRafId' = FALSE
    /\ glTick' = NoTick
    /\ glRender' = NoRender
    /\ glThrown' = FALSE
    /\ UNCHANGED glPc

\* tick() from its first line to the start of the try block, entered with
\* accumulator acc0 and `elapsed' since lastTime; beforeUpdate runs outside
\* the try block, so its exception leaves tick with the loop still running.
GLEnter(acc0, elapsed, beforeThrows) ==
    LET deltaTime == IF elapsed > glMaxFrameTime THEN glMaxFrameTime ELSE elapsed
    IN  /\ acc0 + deltaTime <= MaxAccumulator
        /\ glRafId' = TRUE
        /\ glAccumulator' = acc0 + deltaTime
        /\ glTick' = [expect |-> acc0 + deltaTime, ft |-> glFrameTime,
                      n |-> 0, clean |-> ~beforeThrows, dtOk |-> TRUE, done |-> FALSE]
        /\ glRender' = NoRender
        /\ glPc' = IF beforeThrows THEN "idle" ELSE "updates"
        /\ glThrown' = beforeThrows

\* The animation frame fires: tick().
GLTick(elapsed, beforeThrows) ==
    /\ glPc = "idle"
    /\ glRafId
    /\ IF ~glRunning
       THEN /\ glRafId' = FALSE
            /\ UNCHANGED <<glAccumulator, glTick, glPc, glThrown, glRender>>
       ELSE GLEnter(glAccumulator, elapsed, beforeThrows)
    /\ UNCHANGED <<glRunning, glFrameTime, glMaxFrameTime>>

\* start(), called between ticks: lastTime is now, so the tick it calls
\* sees no elapsed time.
GLStart(beforeThrows) ==
    /\ glPc = "idle"
    /\ IF glRunning
       THEN UNCHANGED <<glRunning, glAccumulator, glRafId, glPc, glTick,
                        glThrown, glRender>>
       ELSE /\ glRunning' = TRUE
            /\ GLEnter(0, 0, beforeThrows)
    /\ UNCHANGED <<glFrameTime, glMaxFrameTime>>

\* stop(), called between ticks.
GLStop ==
    /\ glPc = "idle"
    /\ glRunning' = FALSE
    /\ glRafId' = FALSE
    /\ UNCHANGED <<glAccumulator, glFrameTime, glMaxFrameTime, glPc, glTick,
                   glRender, glThrown>>

\* setTargetFPS(newFps), called between ticks.
GLSetTargetFPS(newFps) ==
    /\ glPc = "idle"
    /\ IF newFps <= 0
       THEN /\ glThrown' = TRUE
            /\ UNCHANGED glFrameTime
       ELSE /\ glFrameTime' = FrameTimeOf(newFps)
            /\ glThrown' = FALSE
    /\ UNCHANGED <<glRunning, glAccumulator, glMaxFrameTime, glRafId, glPc,
                   glTick, glRender>>

\* The loop's fields after an update callback that behaved as b returned:
\* stop() clears running and the frame request; start() on a stopped loop
\* sets running, zeroes the accumulator and runs a whole tick of its own (no
\* time has elapsed: it requests a frame, runs no update and renders 0);
\* start() on a running loop returns at once.
AfterCallback(b) ==
    LET here == [running |-> glRunning, raf |-> glRafId, ft |-> glFrameTime,
                 acc |-> glAccumulator, render |-> glRender]
        restarted == [running |-> TRUE, raf |-> TRUE, ft |-> glFrameTime,
                      acc |-> 0,
                      render |-> [called |-> TRUE, num |-> 0,
                                  den |-> glFrameTime]]
    IN  CASE b.kind = "none" -> here
          [] b.kind = "stop" -> [here EXCEPT !.running = FALSE, !.raf = FALSE]
          [] b.kind = "start" -> IF glRunning THEN here ELSE restarted
          [] b.kind = "restart" -> restarted
          [] b.kind = "throw" -> here
          [] OTHER -> [here EXCEPT !.ft = FrameTimeOf(b.fps)]

\* What one pass of the while loop subtracts, the callback having left the
\* fields as in `after': this.frameTime is read again after the callback.
StepCost(after) == after.ft

\* One pass of `while (accumulator >= frameTime)': update(frameTime), then
\* accumulator -= frameTime.  A throw goes to the catch block: stop().
GLUpdate(b) ==
    /\ glPc = "updates"
    /\ glAccumulator >= glFrameTime
    /\ LET after == AfterCallback(b) IN
       IF b.kind = "throw"
       THEN /\ glRunning' = FALSE
            /\ glRafId' = FALSE
            /\ glPc' = "idle"
            /\ glThrown' = TRUE
            /\ glTick' = [glTick EXCEPT !.clean = FALSE]
            /\ UNCHANGED <<glAccumulator, glFrameTime, glRender>>
       ELSE /\ glRunning' = after.running
            /\ glRafId' = after.raf
            /\ glFrameTime' = after.ft
            /\ glRender' = after.render
            /\ glAccumulator' = after.acc - StepCost(after)
            /\ glTick' = [glTick EXCEPT
                            !.expect = @ - glTick.ft,
                            !.n = @ + 1,
                            !.clean = @ /\ b.kind = "none",
                            !.dtOk = @ /\ glFrameTime = glTick.ft]
            /\ UNCHANGED <<glPc, glThrown>>
    /\ UNCHANGED glMaxFrameTime

\* The interpolation tick passes to render, as numerator and denominator.
Interpolation == [called |-> TRUE, num |-> glAccumulator, den |-> glFrameTime]

\* The while loop ends: afterUpdate(), render(accumulator / frameTime).  A
\* throw of either goes to the catch block: stop().
GLFinish(afterThrows, renderThrows) ==
    /\ glPc = "updates"
    /\ glAccumulator < glFrameTime
    /\ glPc' = "idle"
    /\ glRender' = IF afterThrows THEN glRender ELSE Interpolation
    /\ IF afterThrows \/ renderThrows
       THEN /\ glRunning' = FALSE
            /\ glRafId' = FALSE
            /\ glThrown' = TRUE
            /\ glTick' = [glTick EXCEPT !.clean = FALSE]
       ELSE /\ glThrown' = FALSE
            /\ glTick' = [glTick EXCEPT !.done = TRUE]
            /\ UNCHANGED <<glRunning, glRafId>>
    /\ UNCHANGED <<glAccumulator, glFrameTime, glMaxFrameTime>>

(***************************************************************************)
(* TimingSystem (engine/timing.ts), in the time unit of GameLoop.  update  *)
(* measures performance.now() - lastFrameTime, which is `elapsed' here.    *)
(* The FPS statistics are left out.                                        *)
(***************************************************************************)
MIN_FPS == 20
MAX_FPS == 120
MAX_DELTA_TIME == 600

\* Rates a TimingSystem is constructed with or set to.
RequestedRates == {10, 20, 60, 120, 240}

\* Math.min(Math.max(fps, MIN_FPS), MAX_FPS)
ClampFps(fps) ==
    LET atLeast == IF fps > MIN_FPS THEN fps ELSE MIN_FPS
    IN  IF atLeast < MAX_FPS THEN atLeast ELSE MAX_FPS

\* new TimingSystem(): targetFps defaults to DEFAULT_FPS
TSInit ==
    /\ tsTargetFps = ClampFps(DEFAULT_FPS)
    /\ tsAccumulator = 0
    /\ tsLast = [op |-> "new", added |-> 0]

\* new TimingSystem(targetFps), replacing the system in use
TSNew(targetFps) ==
    /\ tsTargetFps' = ClampFps(targetFps)
    /\ tsAccumulator' = 0
    /\ tsLast' = [op |-> "constructor", added |-> 0]

\* update()
TSUpdate(elapsed) ==
    LET deltaTime == IF elapsed < MAX_DELTA_TIME THEN elapsed
                     ELSE MAX_DELTA_TIME
    IN  /\ tsAccumulator + deltaTime <= MaxAccumulator
        /\ tsAccumulator' = tsAccumulator + deltaTime
        /\ tsLast' = [op |-> "update", added |-> deltaTime]
        /\ UNCHANGED tsTargetFps

\* shouldProcessFrame()
TSShouldProcessFrame == tsAccumulator >= FrameTimeOf(tsTargetFps)

\* consumeFrameTime()
TSConsumeFrameTime ==
    /\ tsAccumulator - FrameTimeOf(tsTargetFps) >= -MaxAccumulator
    /\ tsAccumulator' = tsAccumulator - FrameTimeOf(tsTargetFps)
    /\ tsLast' = [op |-> "consume", added |-> 0]
    /\ UNCHANGED tsTargetFps

\* setTargetFps(fps)
TSSetTargetFps(fps) ==
    /\ tsTargetFps' = ClampFps(fps)
    /\ tsLast' = [op |-> "setTargetFps", added |-> 0]
    /\ UNCHANGED tsAccumulator

\* getInterpolationFactor(), as numerator and denominator
TSInterpolationFactor ==
    [num |-> tsAccumulator, den |-> FrameTimeOf(tsTargetFps)]

(***************************************************************************)
(* Game (js/game.js): init and the fixed-step gameLoop, in the time unit   *)
(* of GameLoop.  gmNow is the clock (performance.now(), which is also the  *)
(* timestamp requestAnimationFrame passes to its callback).  Game.update   *)
(* is empty; Game.render draws on the canvas and may throw.                *)
(***************************************************************************)
GameTargetFPS == 60

\* The highest clock value of a run; the accumulator, which every init()
\* lowers by the clock value, is kept above -MaxClock.
MaxClock == 1400

\* new Game()
GMInit ==
    /\ gmIsRunning = FALSE
    /\ gmNow = 0
    /\ gmLastTime = 0
    /\ gmAccumulator = 0
    /\ gmRaf = FALSE
    /\ gmLast = [op |-> "new", added |-> 0, n |-> 0]

\* gameLoop(currentTime), entered with isRunning true and lastTime as given:
\* the whole while loop runs here, update being empty.
GMGameLoop(currentTime, lastTime, renderThrows) ==
    LET frameInterval == FrameTimeOf(GameTargetFPS)
        deltaTime == currentTime - lastTime
        acc == gmAccumulator + deltaTime
        n == IF acc >= frameInterval THEN acc \div frameInterval ELSE 0
    IN  /\ acc >= -MaxClock
        /\ gmLastTime' = currentTime
        /\ gmAccumulator' = acc - n * frameInterval
        /\ gmLast' = [op |-> "gameLoop", added |-> deltaTime, n |-> n]
        /\ gmIsRunning' = ~renderThrows
        /\ gmRaf' = ~renderThrows

\* init(), called `wait' after the time origin or the previous call:
\* lastTime = performance.now(), then gameLoop() with currentTime = 0.
GMStart(wait, renderThrows) ==
    /\ gmNow + wait <= MaxClock
    /\ gmNow' = gmNow + wait
    /\ GMGameLoop(0, gmNow + wait, renderThrows)

\* The requested frame fires `elapsed' later: gameLoop(time).
GMFrame(elapsed, renderThrows) ==
    /\ gmRaf
    /\ gmNow + elapsed <= MaxClock
    /\ gmNow' = gmNow + elapsed
    /\ IF ~gmIsRunning
       THEN /\ gmRaf' = FALSE
            /\ gmLast' = [op |-> "gameLoop", added |-> 0, n |-> 0]
            /\ UNCHANGED <<gmIsRunning, gmLastTime, gmAccumulator>>
       ELSE GMGameLoop(gmNow + elapsed, gmLastTime, renderThrows)

(***************************************************************************)
(* WaveManager (WaveManager.ts).  The collaborator (gameState.onWaveStart, *)
(* onWaveComplete, onWaveError) and the Enemy constructor are outside the  *)
(* manager: each call of them either returns or throws, which is an input  *)
(* of the action.  Enemies are numbered in the order of their construction.*)
(***************************************************************************)
\* Enemies constructed in a run, the highest wave number reached, and the
\* highest value the spawn timer is let to reach.
MaxEnemies == 9
MaxWave == 3
MaxSpawnTimer == 1000

\* initializeWaveConfigs()
WaveConfigs ==
    (1 :> [enemyCount |-> 5, spawnDelay |-> 1000])
        @@ (2 :> [enemyCount |-> 8, spawnDelay |-> 800])

\* Values of deltaTime passed to update (ms).
DeltaTimes == {500, 1000}

\* this.waveConfigs.get(wave): <<config>>, or <<>> for undefined.
WaveConfigGetFallback(wave) ==
    IF wave \in DOMAIN WaveConfigs THEN <<WaveConfigs[wave]>>
    ELSE <<WaveConfigs[1]>>

WaveConfigGet(wave) ==
    IF wave \in DOMAIN WaveConfigs THEN <<WaveConfigs[wave]>> ELSE <<>>

NoCall == [op |-> "new", started |-> FALSE, completed |-> FALSE,
           errors |-> 0, missing |-> FALSE, spawned |-> FALSE]

\* new WaveManager(gameState)
WMInit ==
    /\ wmCurrentWave = 0
    /\ wmEnemiesSpawned = 0
    /\ wmEnemiesRemaining = 0
    /\ wmSpawnTimer = 0
    /\ wmIsWaveActive = FALSE
    /\ wmActiveEnemies = <<>>
    /\ wmNextId = 0
    /\ wmWaveFirst = 0
    /\ wmDestroyed = 0
    /\ wmErrored = FALSE
    /\ wmElapsed = 0
    /\ wmLast = NoCall

\* startWave(); startThrows: gameState.onWaveStart throws.
WMStartWave(startThrows) ==
    LET wave == wmCurrentWave + 1
        config == WaveConfigGet(wave)
    IN  /\ wave <= MaxWave
        /\ wmCurrentWave' = wave
        /\ IF config = <<>>
           THEN \* throw; catch: handleWaveError()
                /\ wmIsWaveActive' = FALSE
                /\ wmErrored' = TRUE
                /\ wmLast' = [NoCall EXCEPT !.op = "startWave", !.errors = 1,
                                            !.missing = TRUE]
                /\ UNCHANGED <<wmEnemiesSpawned, wmEnemiesRemaining,
                               wmSpawnTimer, wmWaveFirst, wmDestroyed,
                               wmElapsed>>
           ELSE /\ wmEnemiesRemaining' = config[1].enemyCount
                /\ wmElapsed' = 0
                /\ wmEnemiesSpawned' = 0
                /\ wmSpawnTimer' = 0
                /\ wmWaveFirst' = wmNextId
                /\ wmDestroyed' = 0
                /\ wmIsWaveActive' = ~startThrows
                /\ wmErrored' = (wmErrored \/ startThrows)
                /\ wmLast' = [NoCall EXCEPT
                                !.op = "startWave", !.started = TRUE,
                                !.errors = IF startThrows THEN 1 ELSE 0]
        /\ UNCHANGED <<wmActiveEnemies, wmNextId>>

\* checkWaveCompletion(): the condition under which the wave is completed.
WaveComplete(remaining, active) == remaining <= 0 /\ Len(active) = 0

\* The spawn test of update, the variants of it without its first and
\* without its second condition first.
SpawnDueAnyTime(config, timer, spawned) ==
    spawned < config.enemyCount

SpawnDueAnyCount(config, timer, spawned) ==
    timer >= config.spawnDelay

SpawnDue(config, timer, spawned) ==
    timer >= config.spawnDelay /\ spawned < config.enemyCount

\* update(deltaTime); ctorThrows: new Enemy(...) throws; completeThrows:
\* gameState.onWaveComplete throws.
WMUpdate(deltaTime, ctorThrows, completeThrows) ==
    LET timer == wmSpawnTimer + deltaTime
        config == WaveConfigGet(wmCurrentWave)
        due == config # <<>> /\ SpawnDue(config[1], timer, wmEnemiesSpawned)
        active == IF due THEN Append(wmActiveEnemies, wmNextId + 1)
                  ELSE wmActiveEnemies
        done == WaveComplete(wmEnemiesRemaining, active)
    IN  /\ timer <= MaxSpawnTimer
        /\ wmElapsed' = IF wmIsWaveActive THEN wmElapsed + deltaTime
                        ELSE wmElapsed
        /\ IF ~wmIsWaveActive
           THEN /\ wmLast' = [NoCall EXCEPT !.op = "update"]
                /\ UNCHANGED <<wmSpawnTimer, wmIsWaveActive, wmActiveEnemies,
                               wmNextId, wmEnemiesSpawned, wmErrored>>
           ELSE IF config = <<>>
           THEN /\ wmSpawnTimer' = timer
                /\ wmLast' = [NoCall EXCEPT !.op = "update"]
                /\ UNCHANGED <<wmIsWaveActive, wmActiveEnemies, wmNextId,
                               wmEnemiesSpawned, wmErrored>>
           ELSE IF due /\ ctorThrows
           THEN \* spawnEnemy throws; catch: handleWaveError()
                /\ wmSpawnTimer' = timer
                /\ wmIsWaveActive' = FALSE
                /\ wmErrored' = TRUE
                /\ wmLast' = [NoCall EXCEPT !.op = "update", !.errors = 1]
                /\ UNCHANGED <<wmActiveEnemies, wmNextId, wmEnemiesSpawned>>
           ELSE /\ due => wmNextId < MaxEnemies
                /\ wmSpawnTimer' = IF due THEN 0 ELSE timer
                /\ wmActiveEnemies' = active
                /\ wmNextId' = IF due THEN wmNextId + 1 ELSE wmNextId
                /\ wmEnemiesSpawned' = IF due THEN wmEnemiesSpawned + 1
                                       ELSE wmEnemiesSpawned
                /\ wmIsWaveActive' = ~done
                /\ wmErrored' = (wmErrored \/ (done /\ completeThrows))
                /\ wmLast' = [NoCall EXCEPT
                                !.op = "update", !.spawned = due,
                                !.completed = done,
                                !.errors = IF done /\ completeThrows
                                           THEN 1 ELSE 0]
        /\ UNCHANGED <<wmCurrentWave, wmEnemiesRemaining, wmWaveFirst,
                       wmDestroyed>>

\* update(deltaTime) on an active wave whose spawn timer the call takes
\* past MaxSpawnTimer with no spawn due: every enemy of the wave has been
\* spawned, so the timer, which nothing reads any more, is left where it is,
\* and checkWaveCompletion() runs.
WMUpdateIdle(deltaTime) ==
    LET config == WaveConfigGet(wmCurrentWave)
        done == WaveComplete(wmEnemiesRemaining, wmActiveEnemies)
    IN  /\ wmIsWaveActive
        /\ config # <<>>
        /\ wmSpawnTimer + deltaTime > MaxSpawnTimer
        /\ ~SpawnDue(config[1], wmSpawnTimer + deltaTime, wmEnemiesSpawned)
        /\ wmIsWaveActive' = ~done
        /\ wmLast' = [NoCall EXCEPT !.op = "update", !.completed = done]
        /\ UNCHANGED <<wmCurrentWave, wmEnemiesSpawned, wmEnemiesRemaining,
                       wmSpawnTimer, wmActiveEnemies, wmNextId, wmWaveFirst,
                       wmDestroyed, wmErrored, wmElapsed>>

\* onEnemyDestroyed(enemy); enemy 0 is one the manager never constructed.
WMOnEnemyDestroyed(enemy) ==
    LET index == IndexOf(wmActiveEnemies, enemy) IN
    /\ IF index # 0
       THEN /\ wmActiveEnemies' = RemoveAt(wmActiveEnemies, index)
            /\ wmEnemiesRemaining' = wmEnemiesRemaining - 1
            /\ wmDestroyed' = IF enemy > wmWaveFirst THEN wmDestroyed + 1
                              ELSE wmDestroyed
       ELSE UNCHANGED <<wmActiveEnemies, wmEnemiesRemaining, wmDestroyed>>
    /\ wmLast' = [NoCall EXCEPT !.op = "onEnemyDestroyed"]
    /\ UNCHANGED <<wmCurrentWave, wmEnemiesSpawned, wmSpawnTimer,
                   wmIsWaveActive, wmNextId, wmWaveFirst, wmErrored,
                   wmElapsed>>

\* reset().  The enemies constructed before it are tracked no longer, and
\* reporting one of them is reporting an enemy that is not tracked: the
\* numbering of enemies starts again.
WMReset ==
    /\ wmCurrentWave' = 0
    /\ wmEnemiesSpawned' = 0
    /\ wmEnemiesRemaining' = 0
    /\ wmSpawnTimer' = 0
    /\ wmIsWaveActive' = FALSE
    /\ wmActiveEnemies' = <<>>
    /\ wmNextId' = 0
    /\ wmWaveFirst' = 0
    /\ wmDestroyed' = 0
    /\ wmErrored' = FALSE
    /\ wmElapsed' = 0
    /\ wmLast' = [NoCall EXCEPT !.op = "reset"]

(***************************************************************************)
(* CollisionSystem (engine/sprite.ts, the collision.ts part).  Coordinates *)
(* and sizes are integers.  A CollisionResult is [collided, overlap]; its  *)
(* overlap is <<>> when the field is absent or undefined, else <<x, y>>.   *)
(***************************************************************************)
CircleCollider(x, y, radius) ==
    [type |-> "circle", x |-> x, y |-> y, radius |-> radius,
     width |-> 0, height |-> 0]

RectangleCollider(x, y, width, height) ==
    [type |-> "rectangle", x |-> x, y |-> y, radius |-> 0,
     width |-> width, height |-> height]

\* The colliders of the model: circles that overlap, touch (centres 10 apart,
\* radii 5 and 5) and share a centre; rectangles that overlap, touch along an
\* edge and lie one below the other; circle CircleFar touches RectangleEdge
\* at one point.
CircleOrigin     == CircleCollider(0, 0, 5)
CircleFar        == CircleCollider(6, 8, 5)
CircleConcentric == CircleCollider(0, 0, 3)
CircleNear       == CircleCollider(3, 4, 1)
RectangleOrigin  == RectangleCollider(0, 0, 10, 10)
RectangleOffset  == RectangleCollider(5, 5, 10, 10)
RectangleEdge    == RectangleCollider(10, 0, 5, 5)
RectangleApart   == RectangleCollider(5, 20, 2, 2)

Colliders == {CircleOrigin, CircleFar, CircleConcentric, CircleNear,
              RectangleOrigin, RectangleOffset, RectangleEdge, RectangleApart}

\* The entities handed to checkCollision, and those handed to registerEntity
\* (the id "" is the falsy id registerEntity rejects).
Collidables ==
    [id : {"a", "b"}, collider : Colliders, active : BOOLEAN]

Registered ==
    [id : {"", "a", "b", "c"},
     collider : {CircleOrigin, CircleConcentric, RectangleOrigin,
                 RectangleOffset},
     active : BOOLEAN]

\* Math.sqrt(n) <= s.
SqrtBelowOrEqual(n, s) ==
    LET floor == CHOOSE r \in 0..n : r * r <= n /\ (r + 1) * (r + 1) > n
    IN  floor < s \/ (floor = s /\ floor * floor = n)

\* Math.sqrt(n) < s for integers n >= 0 and s: the floor of the root decides.
SqrtBelow(n, s) ==
    LET floor == CHOOSE r \in 0..n : r * r <= n /\ (r + 1) * (r + 1) > n
    IN  floor < s

\* d * (sumRadii - distance) / distance, with distance the root of d2: the
\* number stays symbolic; with distance 0 it is 0 * sumRadii / 0, NaN.
Scaled(d, sumRadii, d2) ==
    [nan |-> d2 = 0, d |-> d, sumRadii |-> sumRadii, d2 |-> d2]

\* Math.max and Math.min; MinIsFirst is a min that ignores its second argument.
Max(a, b) == IF a > b THEN a ELSE b
MinIsFirst(a, b) == a
Min(a, b) == IF a < b THEN a ELSE b

CheckCircleCircle(circle1, circle2) ==
    LET dx == circle2.x - circle1.x
        dy == circle2.y - circle1.y
        d2 == dx * dx + dy * dy
        sumRadii == circle1.radius + circle2.radius
        collided == SqrtBelow(d2, sumRadii)
    IN  [collided |-> collided,
         overlap |-> IF collided
                     THEN <<Scaled(dx, sumRadii, d2), Scaled(dy, sumRadii, d2)>>
                     ELSE <<>>]

CheckCircleRectangle(circle, rect) ==
    LET closestX == Max(rect.x, Min(circle.x, rect.x + rect.width))
        closestY == Max(rect.y, Min(circle.y, rect.y + rect.height))
        distanceX == circle.x - closestX
        distanceY == circle.y - closestY
        distanceSquared == distanceX * distanceX + distanceY * distanceY
        collided == distanceSquared < circle.radius * circle.radius
    IN  [collided |-> collided,
         overlap |-> IF collided THEN <<distanceX, distanceY>> ELSE <<>>]

\* The rectangle test with the third separating condition left out.
CheckRectangleRectangleLopsided(rect1, rect2) ==
    LET collided == ~ \/ rect2.x > rect1.x + rect1.width
                      \/ rect2.x + rect2.width < rect1.x
                      \/ rect2.y + rect2.height < rect1.y
    IN  [collided |-> collided,
         overlap |-> IF collided
                     THEN << Min(rect1.x + rect1.width, rect2.x + rect2.width)
                               - Max(rect1.x, rect2.x),
                             Min(rect1.y + rect1.height, rect2.y + rect2.height)
                               - Max(rect1.y, rect2.y) >>
                     ELSE <<>>]

CheckRectangleRectangle(rect1, rect2) ==
    LET collided == ~ \/ rect2.x > rect1.x + rect1.width
                      \/ rect2.x + rect2.width < rect1.x
                      \/ rect2.y > rect1.y + rect1.height
                      \/ rect2.y + rect2.height < rect1.y
    IN  [collided |-> collided,
         overlap |-> IF collided
                     THEN << Min(rect1.x + rect1.width, rect2.x + rect2.width)
                               - Max(rect1.x, rect2.x),
                             Min(rect1.y + rect1.height, rect2.y + rect2.height)
                               - Max(rect1.y, rect2.y) >>
                     ELSE <<>>]

\* The shape dispatch of checkCollision, after its guard on the active flags.
CheckShapes(entity1, entity2) ==
    IF entity1.collider.type = "circle"
    THEN IF entity2.collider.type = "circle"
         THEN CheckCircleCircle(entity1.collider, entity2.collider)
         ELSE CheckCircleRectangle(entity1.collider, entity2.collider)
    ELSE IF entity2.collider.type = "circle"
         THEN CheckCircleRectangle(entity2.collider, entity1.collider)
         ELSE CheckRectangleRectangle(entity1.collider, entity2.collider)

\* checkCollision guarding on the first entity only.
CheckCollisionFirstOnly(entity1, entity2) ==
    IF ~entity1.active
    THEN [collided |-> FALSE, overlap |-> <<>>]
    ELSE CheckShapes(entity1, entity2)

CheckCollision(entity1, entity2) ==
    IF ~entity1.active \/ ~entity2.active
    THEN [collided |-> FALSE, overlap |-> <<>>]
    ELSE CheckShapes(entity1, entity2)

\* Every ordered pair of positions, a position with itself included.
LoopPairsAll(i, j, n) ==
    [k \in 1..(n * n) |-> <<((k - 1) \div n) + 1, ((k - 1) % n) + 1>>]

\* The pairs of positions update's two loops visit, in order, from (i, j) on.
RECURSIVE LoopPairs(_, _, _)
LoopPairs(i, j, n) ==
    IF i > n THEN <<>>
    ELSE IF j > n THEN LoopPairs(i + 1, i + 2, n)
         ELSE << <<i, j>> >> \o LoopPairs(i, j + 1, n)

\* What update pushes for the pairs it visits: the colliding results, each
\* with the ids of its pair.
RECURSIVE Collisions(_, _)
Collisions(entities, pairs) ==
    IF pairs = <<>> THEN <<>>
    ELSE LET e1 == entities[Head(pairs)[1]]
             e2 == entities[Head(pairs)[2]]
             result == CheckCollision(e1, e2)
         IN  (IF result.collided
              THEN << [a |-> e1.id, b |-> e2.id, result |-> result] >>
              ELSE <<>>) \o Collisions(entities, Tail(pairs))

NoCheck ==
    [op |-> "new", threw |-> FALSE, tested |-> <<>>, results |-> <<>>,
     entity1 |-> <<>>, entity2 |-> <<>>,
     result |-> [collided |-> FALSE, overlap |-> <<>>]]

\* The private constructor.
CSInit ==
    /\ csEntities = <<>>
    /\ csLast = NoCheck

\* registerEntity(entity): Map.set replaces the value of a known key where it
\* stands and appends a new key.
CSRegisterEntity(entity) ==
    /\ csEntities' =
           IF entity.id = "" THEN csEntities
           ELSE IF \E k \in 1..Len(csEntities) : csEntities[k].id = entity.id
                THEN [k \in 1..Len(csEntities) |->
                         IF csEntities[k].id = entity.id THEN entity
                         ELSE csEntities[k]]
                ELSE Append(csEntities, entity)
    /\ csLast' = [NoCheck EXCEPT !.op = "registerEntity",
                                 !.threw = (entity.id = "")]

\* unregisterEntity(entityId).
CSUnregisterEntity(entityId) ==
    /\ csEntities' =
           IF \E k \in 1..Len(csEntities) : csEntities[k].id = entityId
           THEN RemoveAt(csEntities,
                         CHOOSE k \in 1..Len(csEntities) :
                             csEntities[k].id = entityId)
           ELSE csEntities
    /\ csLast' = [NoCheck EXCEPT !.op = "unregisterEntity"]

\* checkCollision(entity1, entity2), called from outside.
CSCheckCollision(entity1, entity2) ==
    /\ csLast' = [NoCheck EXCEPT !.op = "checkCollision",
                                 !.entity1 = entity1,
                                 !.entity2 = entity2,
                                 !.result = CheckCollision(entity1, entity2)]
    /\ UNCHANGED csEntities

\* update().
CSUpdate ==
    LET pairs == LoopPairs(1, 2, Len(csEntities)) IN
    /\ csLast' = [NoCheck EXCEPT
                     !.op = "update",
                     !.tested = [k \in 1..Len(pairs) |->
                                    << csEntities[pairs[k][1]].id,
                                       csEntities[pairs[k][2]].id >>],
                     !.results = Collisions(csEntities, pairs)]
    /\ UNCHANGED csEntities

\* clear().
CSClear ==
    /\ csEntities' = <<>>
    /\ csLast' = [NoCheck EXCEPT !.op = "clear"]

(***************************************************************************)
(* GameStateManager (engine/gameState.ts).                                 *)
(***************************************************************************)
GameState == {"INIT", "MENU", "PLAYING", "PAUSED", "GAME_OVER", "HIGH_SCORE"}

\* this.transitions.  whileNoLives marks the one transition whose condition
\* reads this.stateData.lives; the condition of the others is () => true.
transitions == <<
    [from |-> "INIT",       to |-> "MENU",       whileNoLives |-> FALSE],
    [from |-> "MENU",       to |-> "PLAYING",    whileNoLives |-> FALSE],
    [from |-> "PLAYING",    to |-> "PAUSED",     whileNoLives |-> FALSE],
    [from |-> "PAUSED",     to |-> "PLAYING",    whileNoLives |-> FALSE],
    [from |-> "PLAYING",    to |-> "GAME_OVER",  whileNoLives |-> TRUE],
    [from |-> "GAME_OVER",  to |-> "HIGH_SCORE", whileNoLives |-> FALSE],
    [from |-> "HIGH_SCORE", to |-> "MENU",       whileNoLives |-> FALSE] >>

ConditionAlways(t, stateData) == TRUE

\* t.condition()
Condition(t, stateData) == t.whileNoLives => stateData.lives <= 0

\* The lives updateStateData writes, and the values Date.now() returns.
Lives == {-1, 0, 1, 3}
Now == {0, 1}
\* The states onStateChange registers callbacks for, and the most per state.
Watched == {"MENU", "PLAYING", "GAME_OVER"}
MaxCallbacks == 1

DefaultStateData(now) ==
    [score |-> 0, level |-> 1, lives |-> 3, difficulty |-> 1,
     isPaused |-> FALSE, timestamp |-> now]

GSInit ==
    /\ gsCurrentState = "INIT"
    /\ gsPreviousState = "INIT"
    /\ gsStateData = DefaultStateData(0)
    /\ gsCallbacks = [s \in GameState |-> 0]
    /\ gsLast = [op |-> "new", threw |-> FALSE, ran |-> 0, to |-> "INIT"]

\* transitionTo(newState), Date.now() returning now.  The callbacks of the
\* new state run last, each inside its own try/catch; a transitionTo made by
\* one of them is the next step of the behaviour.
GSTransitionTo(newState, now) ==
    LET validTransition ==
            {i \in DOMAIN transitions :
                /\ transitions[i].from = gsCurrentState
                /\ transitions[i].to = newState
                /\ Condition(transitions[i], gsStateData)}
    IN  IF validTransition = {}
        THEN /\ gsLast' = [op |-> "transitionTo", threw |-> TRUE, ran |-> 0,
                           to |-> newState]
             /\ UNCHANGED <<gsCurrentState, gsPreviousState, gsStateData,
                            gsCallbacks>>
        ELSE /\ gsPreviousState' = gsCurrentState
             /\ gsCurrentState' = newState
             /\ gsStateData' = [gsStateData EXCEPT !.timestamp = now]
             /\ gsLast' = [op |-> "transitionTo", threw |-> FALSE,
                           ran |-> gsCallbacks[newState], to |-> newState]
             /\ UNCHANGED gsCallbacks

\* onStateChange(state, callback)
GSOnStateChange(state) ==
    /\ gsCallbacks[state] < MaxCallbacks
    /\ gsCallbacks' = [gsCallbacks EXCEPT ![state] = @ + 1]
    /\ gsLast' = [op |-> "onStateChange", threw |-> FALSE, ran |-> 0,
                  to |-> state]
    /\ UNCHANGED <<gsCurrentState, gsPreviousState, gsStateData>>

\* updateStateData({ lives })
GSUpdateStateData(lives) ==
    /\ gsStateData' = [gsStateData EXCEPT !.lives = lives]
    /\ gsLast' = [op |-> "updateStateData", threw |-> FALSE, ran |-> 0,
                  to |-> gsCurrentState]
    /\ UNCHANGED <<gsCurrentState, gsPreviousState, gsCallbacks>>

\* reset()
GSReset(now) ==
    /\ gsStateData' = DefaultStateData(now)
    /\ gsCurrentState' = "INIT"
    /\ gsPreviousState' = "INIT"
    /\ gsLast' = [op |-> "reset", threw |-> FALSE, ran |-> 0, to |-> "INIT"]
    /\ UNCHANGED gsCallbacks

(***************************************************************************)
(* Enemy (entities/Enemy.ts).  Times are in frames, speed is 1.            *)
(***************************************************************************)
\* enum EnemyState, in declaration order.
EnemyState == <<"SPAWNING", "ACTIVE", "DYING", "DESTROYED">>

\* Bounds: the health an enemy may reach and the time it is updated for.
MaxHealth == 4
MaxElapsed == 3
\* config.health, the damage of a hit, and the x of the unit movement the
\* enemy's movement pattern returns.
ConfigHealth == {0, 1, 3}
Damages == {-1, 0, 1, 2, 5}
Movements == {0, 1}

DamageableAlways(state) == TRUE

\* takeDamage's guard: this.state === EnemyState.ACTIVE
Damageable(state) == state = "ACTIVE"

\* new Enemy(config)
ENNew(health) ==
    /\ enState' = "SPAWNING"
    /\ enHealth' = health
    /\ enElapsedTime' = 0
    /\ enPosition' = 0
    /\ enKilled' = FALSE
    /\ enLast' = [op |-> "new", result |-> FALSE]

ENInit ==
    /\ enState = "SPAWNING"
    /\ enHealth = 3
    /\ enElapsedTime = 0
    /\ enPosition = 0
    /\ enKilled = FALSE
    /\ enLast = [op |-> "new", result |-> FALSE]

\* update(deltaTime); movement is what movementPattern.getMovement returns.
\* updateShooting hands the position to the shooting pattern and changes
\* nothing of the enemy.
ENUpdate(deltaTime, movement) ==
    /\ enElapsedTime + deltaTime <= MaxElapsed
    /\ enLast' = [op |-> "update", result |-> FALSE]
    /\ UNCHANGED <<enHealth, enKilled>>
    /\ IF enState = "DESTROYED"
       THEN UNCHANGED <<enState, enElapsedTime, enPosition>>
       ELSE LET state == IF enState = "SPAWNING" THEN "ACTIVE" ELSE enState
            IN  /\ enElapsedTime' = enElapsedTime + deltaTime
                /\ enState' = state
                /\ enPosition' = IF state = "ACTIVE"
                                 THEN enPosition + movement * deltaTime
                                 ELSE enPosition

\* takeDamage(damage)
ENTakeDamage(damage) ==
    /\ enHealth - damage <= MaxHealth
    /\ enHealth - damage >= -MaxHealth
    /\ UNCHANGED <<enElapsedTime, enPosition>>
    /\ IF ~Damageable(enState)
       THEN /\ enLast' = [op |-> "takeDamage", result |-> FALSE]
            /\ UNCHANGED <<enState, enHealth, enKilled>>
       ELSE /\ enHealth' = enHealth - damage
            /\ enState' = IF enHealth' <= 0 THEN "DYING" ELSE enState
            /\ enKilled' = (enKilled \/ enHealth' <= 0)
            /\ enLast' = [op |-> "takeDamage", result |-> enHealth' <= 0]

\* destroy()
ENDestroy ==
    /\ enState' = "DESTROYED"
    /\ enLast' = [op |-> "destroy", result |-> FALSE]
    /\ UNCHANGED <<enHealth, enElapsedTime, enPosition, enKilled>>

(***************************************************************************)
(* AnimationSystem (graphics/AnimationSystem.ts).  A frame is its duration. *)
(***************************************************************************)
\* The configurations registerAnimation is called with, by name.
AnimationConfigs ==
    [idle    |-> [frames |-> <<1, 2>>, loop |-> TRUE],
     explode |-> [frames |-> <<2, 1>>, loop |-> FALSE],
     blank   |-> [frames |-> <<>>,     loop |-> FALSE]]

AnimationNames == DOMAIN AnimationConfigs

NoFrame == [op |-> "new", threw |-> FALSE, frame |-> 0, invoked |-> FALSE]

ANInit ==
    /\ anAnimations = {}
    /\ anCurrentState = <<>>
    /\ anOnComplete = FALSE
    /\ anLast = NoFrame

\* registerAnimation(name, config)
ANRegisterAnimation(name) ==
    /\ anAnimations' = anAnimations \cup {name}
    /\ anLast' = [NoFrame EXCEPT !.op = "registerAnimation",
                                !.threw = name \in anAnimations]
    /\ UNCHANGED <<anCurrentState, anOnComplete>>

\* play(name, onComplete); onComplete is undefined when withCallback is false
ANPlay(name, withCallback) ==
    IF name \notin anAnimations
    THEN /\ anLast' = [NoFrame EXCEPT !.op = "play", !.threw = TRUE]
         /\ UNCHANGED <<anAnimations, anCurrentState, anOnComplete>>
    ELSE /\ anCurrentState' = <<[currentFrame |-> 0, elapsed |-> 0,
                                isPlaying |-> TRUE, animation |-> name]>>
         /\ anOnComplete' = withCallback
         /\ anLast' = [NoFrame EXCEPT !.op = "play"]
         /\ UNCHANGED anAnimations

\* pause() and resume()
ANSetPlaying(op, isPlaying) ==
    /\ anCurrentState' = IF anCurrentState = <<>> THEN <<>>
                         ELSE <<[anCurrentState[1] EXCEPT !.isPlaying = isPlaying]>>
    /\ anLast' = [NoFrame EXCEPT !.op = op]
    /\ UNCHANGED <<anAnimations, anOnComplete>>

\* stop()
ANStop ==
    /\ anCurrentState' = <<>>
    /\ anOnComplete' = FALSE
    /\ anLast' = [NoFrame EXCEPT !.op = "stop"]
    /\ UNCHANGED anAnimations

\* update(deltaTime).  The frame returned is its index plus one, 0 for null.
\* Past the last frame of an animation that does not loop, update calls
\* stop() first and reads this.onAnimationComplete afterwards.
ANUpdate(deltaTime) ==
    /\ IF anCurrentState = <<>> THEN TRUE
       ELSE anCurrentState[1].elapsed + deltaTime <= MaxElapsed
    /\ UNCHANGED anAnimations
    /\ IF anCurrentState = <<>> \/ ~anCurrentState[1].isPlaying
       THEN /\ anLast' = [NoFrame EXCEPT !.op = "update"]
            /\ UNCHANGED <<anCurrentState, anOnComplete>>
       ELSE
        LET state == anCurrentState[1]
            animation == AnimationConfigs[state.animation]
            frames == animation.frames
            elapsed == state.elapsed + deltaTime
            index == state.currentFrame
            stopped == [currentState |-> <<>>, onAnimationComplete |-> FALSE]
        IN  IF index + 1 \notin DOMAIN frames
            THEN \* currentFrame is undefined: reading its duration throws
                 /\ anCurrentState' = <<[state EXCEPT !.elapsed = elapsed]>>
                 /\ anLast' = [NoFrame EXCEPT !.op = "update", !.threw = TRUE]
                 /\ UNCHANGED anOnComplete
            ELSE IF elapsed < frames[index + 1]
            THEN /\ anCurrentState' = <<[state EXCEPT !.elapsed = elapsed]>>
                 /\ anLast' = [NoFrame EXCEPT !.op = "update", !.frame = index + 1]
                 /\ UNCHANGED anOnComplete
            ELSE IF index + 1 < Len(frames) \/ animation.loop
            THEN LET next == IF index + 1 < Len(frames) THEN index + 1 ELSE 0
                 IN  /\ anCurrentState' = <<[state EXCEPT
                                              !.elapsed = 0, !.currentFrame = next]>>
                     /\ anLast' = [NoFrame EXCEPT !.op = "update",
                                                 !.frame = next + 1]
                     /\ UNCHANGED anOnComplete
            ELSE /\ anCurrentState' = stopped.currentState
                 /\ anOnComplete' = stopped.onAnimationComplete
                 /\ anLast' = [NoFrame EXCEPT
                                  !.op = "update",
                                  !.invoked = stopped.onAnimationComplete]

(***************************************************************************)
(* SpriteManager (graphics/SpriteManager.ts).  loadSprite suspends at its  *)
(* await; the calls awaiting a promise resume, in order, when its image    *)
(* loads or fails.  A suspended call carries the mark removed: removeSprite *)
(* was called for its id since it started, and no loadSprite(id) since.    *)
(***************************************************************************)
SpriteIds == {"ship", "alien"}
\* Image loads started in a run.
MaxLoads == 3

SMInit ==
    /\ smSprites = {}
    /\ smLoadingPromises = [id \in SpriteIds |-> 0]
    /\ smCreated = 0
    /\ smRejected = {}
    /\ smAwaiting = <<>>
    /\ smLast = [op |-> "new", ids |-> {}, removed |-> {}, threw |-> FALSE]

\* getImage(spriteId) is not undefined
GetImage(spriteId) == spriteId \in smSprites

\* loadSprite(id, url), up to its await
SMLoadSprite(id) ==
    LET fresh == smLoadingPromises[id] = 0
        promise == IF fresh THEN smCreated + 1 ELSE smLoadingPromises[id]
        call == [op |-> "loadSprite", ids |-> {id}, removed |-> {},
                 threw |-> FALSE]
    IN  /\ UNCHANGED <<smSprites, smRejected>>
        /\ IF id \in smSprites
           THEN /\ smLast' = call
                /\ UNCHANGED <<smLoadingPromises, smCreated, smAwaiting>>
           ELSE IF promise \in smRejected
           THEN /\ smLast' = [call EXCEPT !.threw = TRUE]
                /\ UNCHANGED <<smLoadingPromises, smCreated, smAwaiting>>
           ELSE /\ promise <= MaxLoads
                /\ Len(smAwaiting) < MaxLoads
                /\ smCreated' = IF fresh THEN promise ELSE smCreated
                /\ smLoadingPromises' = [smLoadingPromises EXCEPT ![id] = promise]
                /\ smAwaiting' =
                       Append([i \in DOMAIN smAwaiting |->
                                  IF smAwaiting[i].id = id
                                  THEN [smAwaiting[i] EXCEPT !.removed = FALSE]
                                  ELSE smAwaiting[i]],
                              [id |-> id, promise |-> promise, removed |-> FALSE])
                /\ smLast' = call

\* img.onload (loaded) or img.onerror of the image of promise, and the
\* continuation of every loadSprite call that awaits it
SMSettle(promise, loaded) ==
    LET resumed == {i \in DOMAIN smAwaiting : smAwaiting[i].promise = promise}
        ids == {smAwaiting[i].id : i \in resumed}
        removed == {smAwaiting[i].id : i \in {j \in resumed : smAwaiting[j].removed}}
    IN  /\ promise \in 1..smCreated
        /\ promise \notin smRejected
        /\ resumed # {}
        /\ smAwaiting' = Without(smAwaiting, {smAwaiting[i] : i \in resumed})
        /\ UNCHANGED smCreated
        /\ IF loaded
           THEN /\ smSprites' = smSprites \cup ids
                /\ smLoadingPromises' =
                       [id \in SpriteIds |->
                           IF id \in ids THEN 0 ELSE smLoadingPromises[id]]
                /\ smLast' = [op |-> "loaded", ids |-> ids, removed |-> removed,
                              threw |-> FALSE]
                /\ UNCHANGED smRejected
           ELSE /\ smRejected' = smRejected \cup {promise}
                /\ smLast' = [op |-> "failed", ids |-> ids, removed |-> removed,
                              threw |-> TRUE]
                /\ UNCHANGED <<smSprites, smLoadingPromises>>

\* removeSprite(spriteId)
SMRemoveSprite(spriteId) ==
    /\ smSprites' = smSprites \ {spriteId}
    /\ smLoadingPromises' = [smLoadingPromises EXCEPT ![spriteId] = 0]
    /\ smAwaiting' = [i \in DOMAIN smAwaiting |->
                         IF smAwaiting[i].id = spriteId
                         THEN [smAwaiting[i] EXCEPT !.removed = TRUE]
                         ELSE smAwaiting[i]]
    /\ smLast' = [op |-> "removeSprite", ids |-> {spriteId}, removed |-> {},
                  threw |-> FALSE]
    /\ UNCHANGED <<smCreated, smRejected>>

(***************************************************************************)
(* Movement and shooting patterns.  Angles are whole quarter turns, so     *)
(* that sine and cosine are exact: a time is a multiple of 500 pi ms and a *)
(* frequency or angular speed a multiple of 0.001 rad/ms.  The angles of   *)
(* shots are in units of 15 degrees, half of SPREAD_ANGLE.                 *)
(***************************************************************************)
DEFAULT_PROJECTILE_SPEED == 5
\* Bound on this.time and this.angle of the patterns that keep one.
MaxPhase == 4

\* Math.sin, Math.cos and Math.sign; Math.atan2 for a target on an axis
\* through the source.
Sin(quarters) == <<0, 1, 0, -1>>[(quarters % 4) + 1]
Cos(quarters) == Sin(quarters + 1)
Sign(n) == IF n > 0 THEN 1 ELSE IF n < 0 THEN -1 ELSE 0
Atan2(dy, dx) ==
    IF dy = 0 THEN (IF dx < 0 THEN 12 ELSE 0) ELSE 6 * Sign(dy)

\* MovementParams: the fields a caller supplied (given) and their values.
NoParams ==
    [given |-> {}, speed |-> 0, amplitude |-> 0, frequency |-> 0, radius |-> 0]
MovementParams ==
    {NoParams} \cup
    {[NoParams EXCEPT !.given = {f}, ![f] = v] :
        f \in {"speed", "amplitude", "frequency", "radius"}, v \in {-1, 0, 3}}

\* params.field || default
Or(params, field, default) ==
    IF field \in params.given /\ params[field] # 0 THEN params[field]
    ELSE default

\* BaseMovementPattern.validateParams throws
ValidateParams(params) ==
    \/ Or(params, "speed", 0) # 0 /\ params.speed < 0
    \/ Or(params, "amplitude", 0) # 0 /\ params.amplitude < 0

\* The parameters calculate works with: params.field || default
Effective(pattern, params) ==
    [amplitude |-> Or(params, "amplitude", 50),
     frequency |-> Or(params, "frequency", IF pattern = "zigzag" THEN 5 ELSE 2),
     speed     |-> Or(params, "speed", 2),
     radius    |-> Or(params, "radius", 50)]

\* calculate(currentPos, time, params) of the four patterns of
\* MovementPatterns.ts, after validateParams and the reading of params
Calculate(pattern, currentPos, time, p) ==
    LET point(x, y) == [threw |-> FALSE, x |-> x, y |-> y]
    IN  CASE pattern = "sine" ->
                point(currentPos.x - p.speed,
                      currentPos.y + Sin(time * p.frequency) * p.amplitude)
          [] pattern = "circular" ->
                point(currentPos.x + p.radius * Cos(time * p.speed),
                      currentPos.y + p.radius * Sin(time * p.speed))
          [] pattern = "zigzag" ->
                point(currentPos.x - p.speed,
                      currentPos.y + p.amplitude * Sign(Sin(time * p.frequency)))
          [] pattern = "linear" ->
                point(currentPos.x + Cos(0) * p.speed,
                      currentPos.y + Sin(0) * p.speed)

\* SpreadShot.calculateShots
RECURSIVE SpreadShots(_, _, _, _)
SpreadShots(i, spreadCount, source, centerAngle) ==
    IF i >= spreadCount THEN <<>>
    ELSE <<[x |-> source.x, y |-> source.y,
            angle |-> centerAngle + (2 * i - (spreadCount - 1)),
            speed |-> DEFAULT_PROJECTILE_SPEED, type |-> "spread"]>>
         \o SpreadShots(i + 1, spreadCount, source, centerAngle)

\* The configurations the patterns of EnemyBehavior.ts are constructed with.
SineConfig == [speed |-> 1, amplitude |-> 50, frequency |-> 1]
CircularConfig == [speed |-> 1, radius |-> 50]

\* What a call leaves in ptLast.
Called(op, args, result) ==
    LET repeated == ptLast.op = op /\ ptLast.args = args
    IN  [op |-> op, args |-> args, result |-> result, repeated |-> repeated,
         first |-> IF repeated THEN ptLast.result ELSE result]

PTInit ==
    /\ ptSpreadCount = 3
    /\ ptTime = 0
    /\ ptAngle = 0
    /\ ptLast = [op |-> "new", args |-> <<>>, result |-> <<>>,
                 repeated |-> FALSE, first |-> <<>>]

\* pattern.calculate(currentPos, time, params)
PTCalculate(pattern, currentPos, time, params) ==
    /\ ptLast' = Called("calculate",
                        [pattern |-> pattern, currentPos |-> currentPos,
                         time |-> time, params |-> params],
                        IF ValidateParams(params)
                        THEN [threw |-> TRUE, x |-> 0, y |-> 0]
                        ELSE Calculate(pattern, currentPos, time,
                                       Effective(pattern, params)))
    /\ UNCHANGED <<ptSpreadCount, ptTime, ptAngle>>

\* new SpreadShot(spreadCount)
PTSpreadShot(spreadCount) ==
    /\ ptSpreadCount' = Max(1, spreadCount)
    /\ ptLast' = Called("SpreadShot", [spreadCount |-> spreadCount],
                        [threw |-> FALSE])
    /\ UNCHANGED <<ptTime, ptAngle>>

\* spreadShot.calculateShots(source.x, source.y, target.x, target.y, time)
PTCalculateShots(source, target, time) ==
    /\ ptLast' = Called("calculateShots",
                        [source |-> source, target |-> target, time |-> time],
                        SpreadShots(0, ptSpreadCount, source,
                                    Atan2(target.y - source.y,
                                          target.x - source.x)))
    /\ UNCHANGED <<ptSpreadCount, ptTime, ptAngle>>

\* SineWavePattern.update(deltaTime, position) of EnemyBehavior.ts
PTSineUpdate(deltaTime, position) ==
    /\ ptTime + deltaTime <= MaxPhase
    /\ ptTime' = ptTime + deltaTime
    /\ ptLast' = Called("sine.update",
                        [deltaTime |-> deltaTime, position |-> position],
                        [x |-> position.x + SineConfig.speed * deltaTime,
                         y |-> position.y
                                 + Sin(ptTime' * SineConfig.frequency)
                                     * SineConfig.amplitude])
    /\ UNCHANGED <<ptSpreadCount, ptAngle>>

\* CircularPattern.update(deltaTime, position) of EnemyBehavior.ts; the
\* center is the constructor's (0, 0)
PTCircularUpdate(deltaTime, position) ==
    /\ ptAngle + CircularConfig.speed * deltaTime <= MaxPhase
    /\ ptAngle' = ptAngle + CircularConfig.speed * deltaTime
    /\ ptLast' = Called("circular.update",
                        [deltaTime |-> deltaTime, position |-> position],
                        [x |-> 0 + Cos(ptAngle') * CircularConfig.radius,
                         y |-> 0 + Sin(ptAngle') * CircularConfig.radius])
    /\ UNCHANGED <<ptSpreadCount, ptTime>>

\* reset() of the two patterns of EnemyBehavior.ts
PTReset(pattern) ==
    /\ ptTime' = IF pattern = "sine" THEN 0 ELSE ptTime
    /\ ptAngle' = IF pattern = "circular" THEN 0 ELSE ptAngle
    /\ ptLast' = Called(pattern \o ".reset", <<>>, <<>>)
    /\ UNCHANGED ptSpreadCount

LateInit ==
    /\ GSInit
    /\ ENInit
    /\ ANInit
    /\ SMInit
    /\ PTInit

(***************************************************************************)
(* The specifications, one per component.  The components share no state,  *)
(* so a run of one is not interleaved with runs of the others: they stay   *)
(* as constructed.  SpecPool covers both pools; a behaviour of it works on *)
(* the pool that received the first call.                                  *)
(***************************************************************************)
\* Sizes an ObjectPool is constructed with.
MaxInitialSize == 2

OPRests == opLast.op = "new"
PSRests == psLast.op = "new"

InitPool ==
    /\ \E n \in 0..MaxInitialSize : OPInit(n)
    /\ PSInit
    /\ QTInit({})
    /\ GLInit
    /\ WMInit
    /\ TSInit
    /\ GMInit
    /\ EWInit
    /\ CSInit
    /\ LateInit

PoolRest ==
    UNCHANGED <<psVars, qtVars, glVars, wmVars, tsVars, gmVars, ewVars, csVars, lateVars>>

Acquire == PSRests /\ OPAcquire /\ PoolRest

Release == PSRests /\ (\E o \in 0..opCreated : OPRelease(o)) /\ PoolRest

HolderWrite == PSRests /\ (\E o \in opActive : OPHolderWrite(o)) /\ PoolRest

EWRests == ewLast.op = "new"

ProjectilesRest ==
    /\ EWRests
    /\ UNCHANGED <<opVars, qtVars, glVars, wmVars, tsVars, gmVars, ewVars, csVars, lateVars>>

SpawnProjectile ==
    /\ OPRests
    /\ \E type \in ProjectileTypes \cup {"unknown"} : PSSpawnProjectile(type)
    /\ ProjectilesRest

RemoveProjectile ==
    OPRests /\ (\E p \in 0..PoolSize : PSRemoveProjectile(p)) /\ ProjectilesRest

UpdateProjectiles ==
    OPRests /\ (\E e \in SUBSET Range(psActive) : PSUpdate(e)) /\ ProjectilesRest

ClearAll == OPRests /\ PSClearAll /\ ProjectilesRest

NextPool ==
    \/ Acquire
    \/ Release
    \/ HolderWrite
    \/ SpawnProjectile
    \/ RemoveProjectile
    \/ UpdateProjectiles
    \/ ClearAll

SpecPool == InitPool /\ [][NextPool]_vars

InitQuadTree ==
    /\ OPInit(0)
    /\ PSInit
    /\ \E palette \in QTPalettes : QTInit(palette)
    /\ GLInit
    /\ WMInit
    /\ TSInit
    /\ GMInit
    /\ EWInit
    /\ CSInit
    /\ LateInit

QuadTreeRest ==
    UNCHANGED <<opVars, psVars, glVars, wmVars, tsVars, gmVars, ewVars, csVars, lateVars>>

Insert == (\E obj \in qtPalette : QTInsert(obj)) /\ QuadTreeRest

Clear == QTClear /\ QuadTreeRest

NextQuadTree == Insert \/ Clear

SpecQuadTree == InitQuadTree /\ [][NextQuadTree]_vars

InitRest ==
    /\ OPInit(0)
    /\ PSInit
    /\ QTInit({})
    /\ GLInit
    /\ WMInit
    /\ TSInit
    /\ GMInit
    /\ EWInit
    /\ CSInit
    /\ LateInit

\* SpecLoop covers the three loops of the repository; a behaviour of it works
\* on the loop that received the first call.
GLRests == GLInit
TSRests == tsLast.op = "new"
GMRests == gmLast.op = "new"

LoopRest ==
    /\ TSRests
    /\ GMRests
    /\ UNCHANGED <<opVars, psVars, qtVars, wmVars, tsVars, gmVars, ewVars, csVars, lateVars>>

Tick == (\E e \in ElapsedTimes, bt \in BOOLEAN : GLTick(e, bt)) /\ LoopRest

Start == (\E bt \in BOOLEAN : GLStart(bt)) /\ LoopRest

Stop == GLStop /\ LoopRest

SetTargetFPS ==
    (\E f \in TargetRates \cup SlowRate \cup {0} : GLSetTargetFPS(f)) /\ LoopRest

Construct ==
    (\E f \in SlowRate \cup {0, DEFAULT_FPS} : GLNew(f)) /\ LoopRest

Update == (\E b \in UpdateBehaviours : GLUpdate(b)) /\ LoopRest

Finish == (\E at \in BOOLEAN, rt \in BOOLEAN : GLFinish(at, rt)) /\ LoopRest

TimingRest ==
    /\ GLRests
    /\ GMRests
    /\ UNCHANGED <<opVars, psVars, qtVars, wmVars, glVars, gmVars, ewVars, csVars, lateVars>>

TimingNew == (\E f \in RequestedRates : TSNew(f)) /\ TimingRest

TimingUpdate == (\E e \in ElapsedTimes : TSUpdate(e)) /\ TimingRest

ConsumeFrameTime == TSConsumeFrameTime /\ TimingRest

SetTargetFps == (\E f \in RequestedRates : TSSetTargetFps(f)) /\ TimingRest

GameRest ==
    /\ GLRests
    /\ TSRests
    /\ UNCHANGED <<opVars, psVars, qtVars, wmVars, glVars, tsVars, ewVars, csVars, lateVars>>

GameInit ==
    (\E w \in ElapsedTimes, rt \in BOOLEAN : GMStart(w, rt)) /\ GameRest

GameFrame ==
    (\E e \in ElapsedTimes, rt \in BOOLEAN : GMFrame(e, rt)) /\ GameRest

NextLoop ==
    \/ Tick
    \/ Start
    \/ Stop
    \/ SetTargetFPS
    \/ Construct
    \/ Update
    \/ Finish
    \/ TimingNew
    \/ TimingUpdate
    \/ ConsumeFrameTime
    \/ SetTargetFps
    \/ GameInit
    \/ GameFrame

SpecLoop == InitRest /\ [][NextLoop]_vars

WaveRest ==
    UNCHANGED <<opVars, psVars, qtVars, glVars, tsVars, gmVars, ewVars, csVars, lateVars>>

StartWave == (\E st \in BOOLEAN : WMStartWave(st)) /\ WaveRest

UpdateWave ==
    /\ \E dt \in DeltaTimes, ct \in BOOLEAN, ot \in BOOLEAN : WMUpdate(dt, ct, ot)
    /\ WaveRest

\* The enemies reported: the oldest and the newest tracked one, and one that
\* is not tracked.
Reported ==
    {0} \cup (IF wmActiveEnemies = <<>> THEN {}
              ELSE {wmActiveEnemies[1], wmActiveEnemies[Len(wmActiveEnemies)]})

EnemyDestroyed == (\E e \in Reported : WMOnEnemyDestroyed(e)) /\ WaveRest

ResetWaves == WMReset /\ WaveRest

NextWave == StartWave \/ UpdateWave \/ EnemyDestroyed \/ ResetWaves

SpecWave == InitRest /\ [][NextWave]_vars

\* SpecWaveLive: the WaveManager while no collaborator throws, update keeps
\* being called and every tracked enemy is reported destroyed in the end.
\* A wave is started only if the enemies it spawns can still be numbered.
WaveStarts ==
    /\ LET config == WaveConfigGet(wmCurrentWave + 1)
       IN  config # <<>> => wmNextId + config[1].enemyCount <= MaxEnemies
    /\ WMStartWave(FALSE)
    /\ WaveRest

WaveUpdates ==
    /\ \E dt \in DeltaTimes : WMUpdate(dt, FALSE, FALSE) \/ WMUpdateIdle(dt)
    /\ WaveRest

EnemyReported ==
    (\E e \in Reported \ {0} : WMOnEnemyDestroyed(e)) /\ WaveRest

NextWaveLive == WaveStarts \/ WaveUpdates \/ EnemyReported

SpecWaveLive ==
    /\ InitRest
    /\ [][NextWaveLive]_vars
    /\ WF_vars(WaveUpdates)
    /\ WF_vars(EnemyReported)

\* SpecWeapons covers the two projectile stores, ProjectileSystem and
\* EnemyWeaponSystem; a behaviour of it works on the one that received the
\* first call.
WeaponsRest ==
    /\ PSRests
    /\ UNCHANGED <<opVars, psVars, qtVars, glVars, wmVars, tsVars, gmVars, csVars, lateVars>>

\* What the shooting phase of one update builds.
Shots ==
    {<<>>} \cup { <<ProjectileNew(y, vy, l)>> :
                     y \in StartPositions, vy \in Velocities, l \in Lifespans }

WeaponsUpdate ==
    (\E dt \in WeaponDeltaTimes, shots \in Shots : EWUpdate(dt, shots))
        /\ WeaponsRest

ClearProjectiles == EWClearProjectiles /\ WeaponsRest

NextWeapons ==
    \/ SpawnProjectile
    \/ RemoveProjectile
    \/ UpdateProjectiles
    \/ ClearAll
    \/ WeaponsUpdate
    \/ ClearProjectiles

SpecWeapons == InitRest /\ [][NextWeapons]_vars

\* SpecCollision: the CollisionSystem.  checkCollision reads nothing of the
\* registry and writes nothing, so the model calls it on the empty registry
\* only, and not twice in a row.
CollisionRest ==
    UNCHANGED <<opVars, psVars, qtVars, glVars, wmVars, tsVars, gmVars, ewVars,
                lateVars>>

RegisterEntity == (\E e \in Registered : CSRegisterEntity(e)) /\ CollisionRest

UnregisterEntity ==
    (\E id \in {"a", "b", "c"} : CSUnregisterEntity(id)) /\ CollisionRest

CheckTwo ==
    /\ csEntities = <<>>
    /\ csLast.op # "checkCollision"
    /\ \E e1 \in Collidables, e2 \in Collidables : CSCheckCollision(e1, e2)
    /\ CollisionRest

UpdateCollisions == CSUpdate /\ CollisionRest

ClearEntities == CSClear /\ CollisionRest

NextCollision ==
    \/ RegisterEntity
    \/ UnregisterEntity
    \/ CheckTwo
    \/ UpdateCollisions
    \/ ClearEntities

SpecCollision == InitRest /\ [][NextCollision]_vars

\* SpecState: the GameStateManager.
StateRest == UNCHANGED <<earlyVars, enVars, anVars, smVars, ptVars>>

TransitionTo ==
    (\E s \in GameState, now \in Now : GSTransitionTo(s, now)) /\ StateRest

OnStateChange == (\E s \in Watched : GSOnStateChange(s)) /\ StateRest

UpdateStateData == (\E l \in Lives : GSUpdateStateData(l)) /\ StateRest

ResetState == (\E now \in Now : GSReset(now)) /\ StateRest

NextState == TransitionTo \/ OnStateChange \/ UpdateStateData \/ ResetState

SpecState == InitRest /\ [][NextState]_vars

\* SpecEnemy: one Enemy, replaced by a new one at any time.
EnemyRest == UNCHANGED <<earlyVars, gsVars, anVars, smVars, ptVars>>

EnemyNew == (\E h \in ConfigHealth : ENNew(h)) /\ EnemyRest

EnemyUpdate == (\E m \in Movements : ENUpdate(1, m)) /\ EnemyRest

EnemyTakeDamage == (\E d \in Damages : ENTakeDamage(d)) /\ EnemyRest

EnemyDestroy == ENDestroy /\ EnemyRest

NextEnemy == EnemyNew \/ EnemyUpdate \/ EnemyTakeDamage \/ EnemyDestroy

SpecEnemy == InitRest /\ [][NextEnemy]_vars

\* SpecAnimation: one AnimationSystem.
AnimationRest == UNCHANGED <<earlyVars, gsVars, enVars, smVars, ptVars>>

RegisterAnimation ==
    (\E n \in AnimationNames : ANRegisterAnimation(n)) /\ AnimationRest

Play ==
    (\E n \in AnimationNames, c \in BOOLEAN : ANPlay(n, c)) /\ AnimationRest

Pause == ANSetPlaying("pause", FALSE) /\ AnimationRest

Resume == ANSetPlaying("resume", TRUE) /\ AnimationRest

StopAnimation == ANStop /\ AnimationRest

UpdateAnimation == (\E dt \in {1, 2} : ANUpdate(dt)) /\ AnimationRest

NextAnimation ==
    \/ RegisterAnimation
    \/ Play
    \/ Pause
    \/ Resume
    \/ StopAnimation
    \/ UpdateAnimation

SpecAnimation == InitRest /\ [][NextAnimation]_vars

\* SpecSprites: the SpriteManager and the image loads it has started.
SpritesRest == UNCHANGED <<earlyVars, gsVars, enVars, anVars, ptVars>>

LoadSprite == (\E id \in SpriteIds : SMLoadSprite(id)) /\ SpritesRest

ImageSettles ==
    (\E p \in 1..MaxLoads, loaded \in BOOLEAN : SMSettle(p, loaded)) /\ SpritesRest

RemoveSprite == (\E id \in SpriteIds : SMRemoveSprite(id)) /\ SpritesRest

NextSprites == LoadSprite \/ ImageSettles \/ RemoveSprite

SpecSprites == InitRest /\ [][NextSprites]_vars

\* SpecPatterns: one instance of each pattern.  The patterns of
\* MovementPatterns.ts keep no field, so they are called while the other
\* instances are as constructed.
PatternsRest == UNCHANGED <<earlyVars, gsVars, enVars, anVars, smVars>>

PTRests == ptSpreadCount = 3 /\ ptTime = 0 /\ ptAngle = 0

Points == {[x |-> 0, y |-> 0], [x |-> 10, y |-> 20]}

CalculateMovement ==
    /\ PTRests
    /\ \E pattern \in {"sine", "circular", "zigzag", "linear"},
          time \in {1, 3}, params \in MovementParams :
            PTCalculate(pattern, [x |-> 10, y |-> 20], time, params)
    /\ PatternsRest

NewSpreadShot == (\E n \in {-2, 0, 1, 2, 3} : PTSpreadShot(n)) /\ PatternsRest

CalculateShots ==
    /\ \E target \in {[x |-> 1, y |-> 0], [x |-> 0, y |-> 1]}, time \in {1, 3} :
            PTCalculateShots([x |-> 0, y |-> 0], target, time)
    /\ PatternsRest

SineUpdate ==
    (\E dt \in {1, 2}, p \in Points : PTSineUpdate(dt, p)) /\ PatternsRest

CircularUpdate ==
    (\E dt \in {1, 2}, p \in Points : PTCircularUpdate(dt, p)) /\ PatternsRest

ResetPattern == (\E p \in {"sine", "circular"} : PTReset(p)) /\ PatternsRest

NextPatterns ==
    \/ CalculateMovement
    \/ NewSpreadShot
    \/ CalculateShots
    \/ SineUpdate
    \/ CircularUpdate
    \/ ResetPattern

SpecPatterns == InitRest /\ [][NextPatterns]_vars

(***************************************************************************)
(* The claims.                                                             *)
(***************************************************************************)

\* C1 (SpecPool).  Pool partition: in both pools every pooled instance is in
\* exactly one of the free list and the active set; the two are disjoint and
\* the free list holds no instance twice.
C1_PoolPartition ==
    /\ Range(opPool) \cap opActive = {}
    /\ NoDup(opPool)
    /\ Range(opPool) \cup opActive = 1..opCreated
    /\ Range(psPool) \cap Range(psActive) = {}
    /\ NoDup(psPool)
    /\ NoDup(psActive)
    /\ Range(psPool) \cup Range(psActive) = 1..PoolSize

\* removeProjectile was called on a projectile that is in the free list
\* (released before), while others are active.
C1_Witness ==
    /\ psLast.op = "remove"
    /\ psLast.arg \in Range(psPool)
    /\ psActive # <<>>
    /\ psPool # [i \in 1..Len(psPool) |-> i]

\* C2 (SpecQuadTree).  QuadTree completeness: retrieve(query) holds every
\* inserted object whose rectangle overlaps the query, whatever splits have
\* happened.
C2_RetrieveComplete ==
    \A q \in QTQueries :
        LET returned == Range(Retrieve(qtTree, <<>>, q))
        IN  \A obj \in Range(qtInserted) :
                Overlaps(obj, q) => obj \in returned

\* The tree has split at least twice, and a query overlaps an object that is
\* stored two or more levels below the root while another object is not
\* returned for it.
C2_Witness ==
    \E path \in DOMAIN qtTree, q \in QTQueries :
        /\ Len(path) >= 2
        /\ \E i \in 1..Len(qtTree[path]) : Overlaps(qtTree[path][i], q)
        /\ Range(qtInserted) \ Range(Retrieve(qtTree, <<>>, q)) # {}

\* C3 (SpecLoop).  Accumulator conservation: after a tick in which no callback
\* threw or re-entered the loop, the accumulator is its value on entry plus
\* the clamped elapsed time minus frameTime per update, every update was
\* called with frameTime, and 0 <= accumulator < frameTime.
C3_AccumulatorConservation ==
    (glPc = "idle" /\ glTick.done /\ glTick.clean)
        => /\ glAccumulator = glTick.expect
           /\ glTick.dtOk
           /\ 0 <= glAccumulator
           /\ glAccumulator < glTick.ft

\* C4 (SpecLoop).  Every interpolation passed to render lies in [0, 1).
C4_InterpolationInRange ==
    glRender.called => (0 <= glRender.num /\ glRender.num < glRender.den)

\* C5 (SpecWave).  Wave completion: once the enemyCount enemies of the wave
\* have been spawned and all reported destroyed, the next update deactivates
\* the wave and notifies onWaveComplete; an update of an inactive manager
\* notifies nothing; and the startWave after the completion activates the
\* next wave or fails for want of a configuration (onWaveStart returning).
C5_WaveCompletesOnce ==
    [][ /\ ( /\ UpdateWave
             /\ wmIsWaveActive
             /\ wmCurrentWave \in DOMAIN WaveConfigs
             /\ wmEnemiesSpawned = WaveConfigs[wmCurrentWave].enemyCount
             /\ wmDestroyed = WaveConfigs[wmCurrentWave].enemyCount )
            => (~wmIsWaveActive' /\ wmLast'.completed)
        /\ (UpdateWave /\ ~wmIsWaveActive)
            => (~wmLast'.completed /\ ~wmIsWaveActive')
        /\ (WMStartWave(FALSE) /\ WaveRest /\ wmLast.completed)
            => (wmIsWaveActive' \/ wmLast'.missing)
      ]_vars

\* C6 (SpecWave).  onWaveComplete is notified only with enemiesRemaining = 0
\* and no enemy tracked.
C6_SoleCompletionCondition ==
    (wmLast.op = "update" /\ wmLast.completed)
        => (wmEnemiesRemaining = 0 /\ wmActiveEnemies = <<>>)

\* C7 (SpecWave).  enemiesRemaining is never negative, and onEnemyDestroyed
\* of an enemy that is not tracked changes nothing.
C7_RemainingNeverNegative ==
    [][ /\ wmEnemiesRemaining' >= 0
        /\ (EnemyDestroyed /\ wmActiveEnemies' = wmActiveEnemies)
            => UNCHANGED <<wmCurrentWave, wmEnemiesSpawned, wmEnemiesRemaining,
                           wmSpawnTimer, wmIsWaveActive>>
      ]_vars

\* C8 (SpecWave).  startWave during an active wave begins no wave: the wave
\* number, the counters and the spawn timer stay.
C8_NoStartWhileActive ==
    [][ (StartWave /\ wmIsWaveActive)
            => /\ UNCHANGED <<wmCurrentWave, wmEnemiesSpawned,
                              wmEnemiesRemaining, wmSpawnTimer>>
               /\ ~wmLast'.started
      ]_vars

\* C9 (SpecWave).  Once onWaveError has been notified, no startWave or update
\* makes a wave active or spawns an enemy.
C9_ErroredAbsorbing ==
    [][ (wmErrored /\ (StartWave \/ UpdateWave))
            => (~wmIsWaveActive' /\ ~wmLast'.spawned)
      ]_vars

\* C10 (SpecWave).  startWave without a configuration for the next wave
\* number: no wave is active afterwards, onWaveError is notified once and
\* onWaveStart not at all, nothing is spawned, and only the wave number has
\* changed.
C10_MissingConfiguration ==
    [][ (StartWave /\ (wmCurrentWave + 1) \notin DOMAIN WaveConfigs)
            => /\ ~wmIsWaveActive'
               /\ wmLast'.errors = 1
               /\ ~wmLast'.started
               /\ ~wmLast'.spawned
               /\ wmCurrentWave' = wmCurrentWave + 1
               /\ UNCHANGED <<wmEnemiesSpawned, wmEnemiesRemaining,
                              wmSpawnTimer, wmActiveEnemies, wmNextId>>
      ]_vars

\* startWave found no configuration while a wave was running with enemies
\* tracked.
C10_Witness ==
    /\ wmLast.op = "startWave"
    /\ wmLast.missing
    /\ wmCurrentWave = 3
    /\ wmActiveEnemies # <<>>
    /\ wmEnemiesRemaining > 0

\* C11 (SpecLoop).  An update callback that throws on the k-th step of a tick:
\* the exception leaves tick, the loop is stopped with no frame pending,
\* afterUpdate and render are not called, and the accumulator is its value on
\* entry plus the clamped elapsed time minus (k-1) frame times (the frame time
\* read as the one on entry to the tick or as the one at the throw); a frame
\* that fires on a stopped loop invokes no callback.
C11_UpdateThrowKeepsAccumulator ==
    [][ /\ (Update /\ glThrown')
            => /\ ~glRunning'
               /\ ~glRafId'
               /\ glPc' = "idle"
               /\ ~glRender'.called
               /\ ~glTick'.done
               /\ \/ glAccumulator' = glTick.expect
                  \/ glAccumulator'
                        = glTick.expect + glTick.n * glTick.ft
                                        - glTick.n * glFrameTime
        /\ (Tick /\ ~glRunning) => UNCHANGED <<glPc, glTick, glRender>>
      ]_vars

\* C12 (SpecLoop).  Frame-time clamp: in GameLoop.tick, TimingSystem.update
\* and Game.gameLoop the time one frame adds to the accumulator is at least 0
\* and at most MAX_FRAME_TIME (100 ms).
C12_FrameTimeClamp ==
    [][ /\ (Tick /\ glRunning)
            => (glAccumulator' - glAccumulator) \in 0..MAX_FRAME_TIME
        /\ TimingUpdate => tsLast'.added \in 0..MAX_DELTA_TIME
        /\ (GameInit \/ GameFrame) => gmLast'.added \in 0..MAX_FRAME_TIME
      ]_vars

\* C13 (SpecPool).  ProjectileSystem is a non-growing pool: the free list and
\* the active set together always hold poolSize instances, those made by the
\* constructor: none is created later and none is lost.
C13_NonGrowingPool ==
    /\ Len(psPool) + Len(psActive) = PoolSize
    /\ DOMAIN psProj = 1..PoolSize
    /\ \A p \in 1..PoolSize : p \in Range(psPool) \/ p \in Range(psActive)

\* An update has returned projectiles to the free list, so that the list is
\* no longer in its order of construction, while other projectiles stay active.
C13_Witness ==
    /\ psLast.op = "update"
    /\ psPool # <<>>
    /\ psActive # <<>>
    /\ psPool[1] # 1

\* C14 (SpecPool).  Exhaustion is signalled: acquire on an empty free list
\* creates an instance, makes it active and returns it; spawnProjectile on an
\* empty free list returns null and changes neither collection; the caller gets
\* an instance exactly when that instance became active; spawnProjectile with
\* an unknown type returns null and takes nothing from the free list.
C14_ExhaustionSignalled ==
    [][ /\ Acquire
            => /\ opLast'.ret # 0
               /\ opLast'.ret \notin opActive
               /\ opActive' = opActive \cup {opLast'.ret}
               /\ opPool = <<>>
                    => (opCreated' = opCreated + 1 /\ opLast'.ret = opCreated'
                        /\ opPool' = <<>>)
        /\ SpawnProjectile
            => /\ psPool = <<>>
                    => (psLast'.ret = 0 /\ UNCHANGED <<psPool, psActive>>)
               /\ psLast'.type \notin ProjectileTypes
                    => (psLast'.ret = 0 /\ UNCHANGED <<psPool, psActive>>)
               /\ psLast'.ret = 0 => UNCHANGED <<psPool, psActive>>
               /\ psLast'.ret # 0
                    => /\ psLast'.ret \notin Range(psActive)
                       /\ psActive' = Append(psActive, psLast'.ret)
                       /\ psLast'.ret \notin Range(psPool')
      ]_vars

\* spawnProjectile of a known type was refused because every projectile is
\* active.
C14_Witness ==
    /\ psLast.op = "spawn"
    /\ psLast.type \in ProjectileTypes
    /\ psLast.ret = 0
    /\ psPool = <<>>
    /\ Len(psActive) = PoolSize

\* C15 (SpecPool).  No state leakage: every instance in a free list has all
\* its fields at their construction defaults.
C15_ReleasedIsReset ==
    /\ \A i \in Range(opPool) : opFields[i] = CreateFn
    /\ \A p \in Range(psPool) : psProj[p] = ProjectileDefault

\* C16 (SpecPool).  release, and removeProjectile, of an instance that is not
\* active changes nothing.
C16_ReleaseIdempotent ==
    [][ /\ (Release /\ opLast'.arg \notin opActive)
            => UNCHANGED <<opCreated, opPool, opActive, opFields>>
        /\ (RemoveProjectile /\ psLast'.arg \notin Range(psActive))
            => UNCHANGED <<psPool, psActive, psProj>>
      ]_vars

\* release was called on an instance that had been released before (it is in
\* the free list below the top), while other instances are active.
C16_Witness ==
    /\ opLast.op = "release"
    /\ opLast.arg \in Range(opPool)
    /\ opPool[Len(opPool)] # opLast.arg
    /\ opActive # {}

C18_StoredExactlyOnce ==
    /\ \A r \in qtPalette :
           Stored(qtTree, <<>>, r) = Occurrences(qtInserted, r)
    /\ SubtreeSize(qtTree, <<>>) = Len(qtInserted)
    /\ \A path \in DOMAIN qtTree :
           path # <<>> => HasNodes(qtTree, Front(path))

\* The tree is four levels deep or more, with an object kept at the root (it
\* fits no child) and the others moved down by the splits.
C18_Witness ==
    /\ qtTree[<<>>] # <<>>
    /\ \E path \in DOMAIN qtTree :
           Len(path) >= 4 /\ qtTree[path] # <<>>

\* C19 (SpecQuadTree).  An object stored in a child quadrant lies wholly
\* within that child's boundary.
C19_ChildContainsObject ==
    \A path \in DOMAIN qtTree :
        path # <<>>
            => \A i \in 1..Len(qtTree[path]) :
                   Contains(Boundary(path), qtTree[path][i])

\* C20 (SpecQuadTree).  Shape: no node is deeper than MAX_LEVELS; a node has
\* children only if it is above MAX_LEVELS and more than MAX_OBJECTS objects
\* have reached it; it then has exactly four children, of half its width and
\* height, that lie within it, none holding the centre of another (so they
\* tile it); and an insert of any object returns, leaving a tree.
C20_ShapeInvariant ==
    /\ \A path \in DOMAIN qtTree :
           /\ Len(path) <= MAX_LEVELS
           /\ \A k \in 1..Len(path) : path[k] \in 0..3
           /\ path # <<>> =>
                  \A i \in 0..3 : (Front(path) \o <<i>>) \in DOMAIN qtTree
    /\ \A path \in { p \in DOMAIN qtTree : HasNodes(qtTree, p) } :
           LET b == Boundary(path)
               c == << ChildBoundary(b, 0), ChildBoundary(b, 1),
                       ChildBoundary(b, 2), ChildBoundary(b, 3) >>
           IN  /\ Len(path) < MAX_LEVELS
               /\ SubtreeSize(qtTree, path) > MAX_OBJECTS
               /\ \A i \in 1..4 :
                      /\ 2 * c[i].width = b.width
                      /\ 2 * c[i].height = b.height
                      /\ Contains(b, c[i])
               /\ \A i, j \in 1..4 :
                      i # j => ~Contains(c[i], Rect(c[j].x + b.width \div 4,
                                                   c[j].y + b.height \div 4,
                                                   0, 0))
    /\ \A obj \in qtPalette : <<>> \in DOMAIN InsertAt(qtTree, <<>>, obj)

\* A node of level MAX_LEVELS holds more than MAX_OBJECTS objects and has not
\* split, below four split nodes.
C20_Witness ==
    \E path \in DOMAIN qtTree :
        /\ Len(path) = MAX_LEVELS
        /\ Len(qtTree[path]) > MAX_OBJECTS
        /\ ~HasNodes(qtTree, path)

\* C21 (SpecCollision).  Collision symmetry: checkCollision(A, B) and
\* checkCollision(B, A) agree on collided, for every combination of shapes
\* and active flags.
C21_CollisionSymmetry ==
    csLast.op = "checkCollision"
        => csLast.result.collided
               = CheckCollision(csLast.entity2, csLast.entity1).collided

\* A rectangle was checked against a circle it overlaps, and two rectangles
\* one below the other are checked in the order lower, upper.
C21_Witness ==
    /\ csLast.op = "checkCollision"
    /\ \/ /\ csLast.entity1.collider.type = "rectangle"
          /\ csLast.entity2.collider.type = "circle"
          /\ csLast.result.collided
       \/ /\ csLast.entity1.collider = RectangleApart
          /\ csLast.entity2.collider = RectangleOrigin
          /\ csLast.entity1.active /\ csLast.entity2.active

\* C22 (SpecCollision).  Inactive entities never collide: checkCollision
\* answers collided = false when either entity is inactive, and no result of
\* update is for a pair with an inactive entity.
C22_InactiveNeverCollide ==
    /\ (csLast.op = "checkCollision"
           /\ (~csLast.entity1.active \/ ~csLast.entity2.active))
          => ~csLast.result.collided
    /\ csLast.op = "update"
          => \A r \in 1..Len(csLast.results) :
                 \A k \in 1..Len(csEntities) :
                     csEntities[k].id \in {csLast.results[r].a,
                                           csLast.results[r].b}
                         => csEntities[k].active

\* An inactive entity whose shape overlaps the shape of an active one has gone
\* through checkCollision, and through an update that returned a result for
\* another pair.
C22_Witness ==
    \/ /\ csLast.op = "checkCollision"
       /\ ~csLast.entity2.active
       /\ csLast.entity1.active
       /\ CheckShapes(csLast.entity1, csLast.entity2).collided
    \/ /\ csLast.op = "update"
       /\ csLast.results # <<>>
       /\ \E k, l \in 1..Len(csEntities) :
              /\ ~csEntities[k].active
              /\ csEntities[l].active
              /\ CheckShapes(csEntities[k], csEntities[l]).collided

\* C23 (SpecCollision).  update tests every unordered pair of distinct
\* registered entities exactly once, never an entity against itself, and
\* returns exactly one result per pair that is active and colliding.
C23_EachPairOnce ==
    csLast.op = "update"
        => LET n == Len(csEntities)
               Among(seq, a, b) ==
                   Cardinality({ k \in 1..Len(seq) :
                                   {seq[k][1], seq[k][2]} = {a, b} })
               ResultPairs == [r \in 1..Len(csLast.results) |->
                                  <<csLast.results[r].a, csLast.results[r].b>>]
           IN  /\ \A k \in 1..Len(csLast.tested) :
                      csLast.tested[k][1] # csLast.tested[k][2]
               /\ 2 * Len(csLast.tested) = n * (n - 1)
               /\ \A i, j \in 1..n :
                      i < j =>
                        /\ Among(csLast.tested,
                                 csEntities[i].id, csEntities[j].id) = 1
                        /\ Among(ResultPairs,
                                 csEntities[i].id, csEntities[j].id)
                             = (IF /\ csEntities[i].active
                                   /\ csEntities[j].active
                                   /\ CheckShapes(csEntities[i],
                                                  csEntities[j]).collided
                                THEN 1 ELSE 0)
               /\ Len(csLast.results)
                     = Cardinality({ p \in (1..n) \X (1..n) :
                                       /\ p[1] < p[2]
                                       /\ csEntities[p[1]].active
                                       /\ csEntities[p[2]].active
                                       /\ CheckShapes(csEntities[p[1]],
                                                      csEntities[p[2]]).collided })

\* An update of three registered entities returned two results or more.
C23_Witness ==
    /\ csLast.op = "update"
    /\ Len(csEntities) = 3
    /\ Len(csLast.results) >= 2
    /\ Len(csLast.results) < Len(csLast.tested)

\* C24 (SpecCollision).  The circle/circle test is strict: collided exactly
\* when the centre distance is below the sum of the radii; at a distance equal
\* to the sum the circles do not collide and the result has no overlap.
C24_CircleTestStrict ==
    (/\ csLast.op = "checkCollision"
     /\ csLast.entity1.active /\ csLast.entity2.active
     /\ csLast.entity1.collider.type = "circle"
     /\ csLast.entity2.collider.type = "circle")
        => LET c1 == csLast.entity1.collider
               c2 == csLast.entity2.collider
               d2 == (c2.x - c1.x) * (c2.x - c1.x)
                        + (c2.y - c1.y) * (c2.y - c1.y)
               sum == c1.radius + c2.radius
           IN  /\ csLast.result.collided <=> (sum > 0 /\ d2 < sum * sum)
               /\ d2 = sum * sum
                     => ~csLast.result.collided /\ csLast.result.overlap = <<>>

\* Two active circles whose centres are exactly the sum of their radii apart
\* were checked.
C24_Witness ==
    /\ csLast.op = "checkCollision"
    /\ csLast.entity1.active /\ csLast.entity2.active
    /\ csLast.entity1.collider = CircleOrigin
    /\ csLast.entity2.collider = CircleFar

\* C25 (SpecCollision).  The rectangle/rectangle test: collided exactly when
\* the rectangles share a point (none of the four separating conditions
\* holds); the overlap is then the width and height of their intersection,
\* both >= 0; (0,0,10,10) against (5,5,10,10) collides with overlap (5,5).
C25_RectangleTest ==
    (/\ csLast.op = "checkCollision"
     /\ csLast.entity1.active /\ csLast.entity2.active
     /\ csLast.entity1.collider.type = "rectangle"
     /\ csLast.entity2.collider.type = "rectangle")
        => LET r1 == csLast.entity1.collider
               r2 == csLast.entity2.collider
               left == Max(r1.x, r2.x)
               top == Max(r1.y, r2.y)
               right == IF r1.x + r1.width < r2.x + r2.width
                        THEN r1.x + r1.width ELSE r2.x + r2.width
               bottom == IF r1.y + r1.height < r2.y + r2.height
                         THEN r1.y + r1.height ELSE r2.y + r2.height
           IN  /\ csLast.result.collided <=> (left <= right /\ top <= bottom)
               /\ csLast.result.collided
                     => /\ csLast.result.overlap = <<right - left, bottom - top>>
                        /\ csLast.result.overlap[1] >= 0
                        /\ csLast.result.overlap[2] >= 0
               /\ ~csLast.result.collided => csLast.result.overlap = <<>>
               /\ (r1 = RectangleOrigin /\ r2 = RectangleOffset)
                     => csLast.result = [collided |-> TRUE, overlap |-> <<5, 5>>]

\* The scenario's rectangles were checked, (5,5,10,10) first.
C25_Witness ==
    /\ csLast.op = "checkCollision"
    /\ csLast.entity1.active /\ csLast.entity2.active
    /\ csLast.entity1.collider = RectangleOffset
    /\ csLast.entity2.collider = RectangleOrigin
    /\ csLast.result.collided

\* C26 (SpecCollision).  Two circles with the same centre and a positive sum
\* of radii collide with a well-defined overlap vector: no component is the
\* outcome of a division by zero.
C26_DegenerateCircles ==
    (/\ csLast.op = "checkCollision"
     /\ csLast.entity1.active /\ csLast.entity2.active
     /\ csLast.entity1.collider.type = "circle"
     /\ csLast.entity2.collider.type = "circle"
     /\ csLast.entity1.collider.x = csLast.entity2.collider.x
     /\ csLast.entity1.collider.y = csLast.entity2.collider.y
     /\ csLast.entity1.collider.radius + csLast.entity2.collider.radius > 0)
        => /\ csLast.result.collided
           /\ csLast.result.overlap # <<>>
           /\ ~csLast.result.overlap[1].nan
           /\ ~csLast.result.overlap[2].nan

\* C27 (SpecWave).  enemiesSpawned never exceeds the enemyCount of the
\* current wave's configuration, and an update that finds the configured
\* total spawned spawns nothing, whatever the spawn timer has reached.
C27_SpawnedWithinCount ==
    /\ [](WaveConfigGet(wmCurrentWave) # <<>>
             => wmEnemiesSpawned <= WaveConfigGet(wmCurrentWave)[1].enemyCount)
    /\ [][(/\ UpdateWave
           /\ WaveConfigGet(wmCurrentWave) # <<>>
           /\ wmEnemiesSpawned >= WaveConfigGet(wmCurrentWave)[1].enemyCount)
              => /\ ~wmLast'.spawned
                 /\ UNCHANGED <<wmEnemiesSpawned, wmActiveEnemies, wmNextId>>]_vars

\* An update of an active wave found every enemy of the wave spawned and the
\* spawn timer at the spawn delay or beyond it.
C27_Witness ==
    /\ wmLast.op = "update"
    /\ wmIsWaveActive
    /\ WaveConfigGet(wmCurrentWave) # <<>>
    /\ wmEnemiesSpawned = WaveConfigGet(wmCurrentWave)[1].enemyCount
    /\ wmSpawnTimer >= WaveConfigGet(wmCurrentWave)[1].spawnDelay

C29_RateChangeNextTick ==
    [][ /\ (/\ Update
            /\ glPc' = "updates"
            /\ glRender' = NoRender
            /\ glRunning' = glRunning
            /\ glRafId' = glRafId)
               => /\ glAccumulator >= glTick.ft
                  /\ glAccumulator' = glAccumulator - glTick.ft
        /\ (Finish /\ ~glRender.called /\ glRender'.called)
               => /\ glAccumulator < glTick.ft
                  /\ glRender'.num = glAccumulator
                  /\ glRender'.den = glTick.ft ]_vars

\* C30 (SpecLoop).  The step rate in use lies within [MIN_FPS, MAX_FPS]: the
\* frame time of a GameLoop is between 1000/MAX_FPS and 1000/MIN_FPS ms after
\* its construction and after every setTargetFPS, and the targetFps of a
\* TimingSystem is between MIN_FPS and MAX_FPS.
C30_RateWithinRange ==
    /\ glFrameTime >= FrameTimeOf(MAX_FPS)
    /\ glFrameTime <= FrameTimeOf(MIN_FPS)
    /\ tsTargetFps >= MIN_FPS
    /\ tsTargetFps <= MAX_FPS

\* C31 (SpecLoop).  TimingSystem.getInterpolationFactor returns a number
\* between 0 and 1 in every reachable state of a TimingSystem.
C31_TimingInterpolationInRange ==
    /\ TSInterpolationFactor.num >= 0
    /\ TSInterpolationFactor.num <= TSInterpolationFactor.den

\* C37 (SpecLoop).  A throw from any callback of a tick stops the loop: when
\* a tick (entered from a frame or from start) ends in an exception of
\* beforeUpdate, update, afterUpdate or render, running is false and no frame
\* remains requested.
C37_AnyThrowStopsLoop ==
    [][((Tick \/ Start \/ Update \/ Finish) /\ glThrown')
          => (~glRunning' /\ ~glRafId')]_vars

\* C38 (SpecLoop).  Between stop() and the next start() no callback is
\* invoked: a pass of the update loop, and the afterUpdate and render that
\* follow the loop, happen only while the loop is running.
C38_NoCallbackAfterStop ==
    [][(Update \/ Finish) => glRunning]_vars

\* C36 (SpecState).  transitionTo(s) succeeds exactly when (currentState, s)
\* is one of the seven defined transitions and, for PLAYING to GAME_OVER,
\* lives <= 0.  A successful call leaves previousState at the state that was
\* current and currentState at s; any other call throws, runs no callback and
\* leaves currentState, previousState and stateData as they were.
C36_TransitionContract ==
    [][TransitionTo =>
        LET s == gsLast'.to
            defined ==
                /\ <<gsCurrentState, s>> \in
                       {<<"INIT", "MENU">>, <<"MENU", "PLAYING">>,
                        <<"PLAYING", "PAUSED">>, <<"PAUSED", "PLAYING">>,
                        <<"PLAYING", "GAME_OVER">>,
                        <<"GAME_OVER", "HIGH_SCORE">>,
                        <<"HIGH_SCORE", "MENU">>}
                /\ (<<gsCurrentState, s>> = <<"PLAYING", "GAME_OVER">>
                        => gsStateData.lives <= 0)
        IN  IF defined
            THEN /\ ~gsLast'.threw
                 /\ gsPreviousState' = gsCurrentState
                 /\ gsCurrentState' = s
            ELSE /\ gsLast'.threw
                 /\ gsLast'.ran = 0
                 /\ UNCHANGED <<gsCurrentState, gsPreviousState, gsStateData>>
    ]_vars

\* A PLAYING game with lives left and a GAME_OVER callback registered has
\* just refused transitionTo(GAME_OVER).
C36_Witness ==
    /\ gsLast.op = "transitionTo"
    /\ gsLast.threw
    /\ gsLast.to = "GAME_OVER"
    /\ gsCurrentState = "PLAYING"
    /\ gsPreviousState = "PAUSED"
    /\ gsStateData.lives > 0
    /\ gsCallbacks["GAME_OVER"] > 0

\* C40 (SpecEnemy).  The lifecycle of an Enemy is monotone: update and
\* takeDamage leave the state or move it to the next one in the order
\* SPAWNING, ACTIVE, DYING, DESTROYED, destroy moves it to DESTROYED, and
\* nothing leaves DESTROYED; health changes only in a call made while the
\* state is ACTIVE; takeDamage returns true at most once per enemy.
C40_LifecycleMonotone ==
    [][(EnemyUpdate \/ EnemyTakeDamage \/ EnemyDestroy) =>
        LET Order(state) ==
                CHOOSE i \in DOMAIN EnemyState : EnemyState[i] = state
        IN  /\ Order(enState') >= Order(enState)
            /\ (enLast'.op # "destroy" => Order(enState') <= Order(enState) + 1)
            /\ (enState = "DESTROYED" => enState' = "DESTROYED")
            /\ (enHealth' # enHealth => enState = "ACTIVE")
            /\ (enLast'.result => ~enKilled)
    ]_vars

\* A dying enemy, killed by an earlier hit, has just been hit again and
\* takeDamage answered false.
C40_Witness ==
    /\ enState = "DYING"
    /\ enKilled
    /\ enLast = [op |-> "takeDamage", result |-> FALSE]
    /\ enElapsedTime > 1

\* C35 (SpecAnimation).  An animation that does not loop, has a frame and
\* was started by play(name, onComplete) invokes onComplete in the update
\* call that advances past its last frame, and in no other: that call
\* returns null and leaves nothing playing, and an update that invokes the
\* callback is such a call.
C35_CompletionCallback ==
    [][UpdateAnimation =>
        LET playing == anCurrentState # <<>> /\ anCurrentState[1].isPlaying
            completes ==
                /\ playing
                /\ ~AnimationConfigs[anCurrentState[1].animation].loop
                /\ AnimationConfigs[anCurrentState[1].animation].frames # <<>>
                /\ anOnComplete
                /\ anCurrentState' = <<>>
        IN  /\ completes => (anLast'.invoked /\ anLast'.frame = 0)
            /\ anLast'.invoked => completes
    ]_vars

\* C34 (SpecSprites).  A load whose sprite was removed while its image was
\* still loading is discarded: when the image has loaded and the suspended
\* loadSprite calls have run, the manager holds no sprite for an id that
\* removeSprite was called for after the load started.
C34_RemovedLoadDiscarded ==
    smLast.op = "loaded" => \A id \in smLast.removed : ~GetImage(id)

\* C32 (SpecPatterns).  A pattern never replaces or clamps a parameter its
\* caller supplied: calculate throws for a negative speed or amplitude and
\* otherwise returns the position computed from the supplied values (the
\* default only for a parameter that was not supplied), and a SpreadShot
\* holds the shot count it was constructed with.
C32_ParametersUsedAsSupplied ==
    LET Supplied(params, field, default) ==
            IF field \in params.given THEN params[field] ELSE default
        negative(params, field) ==
            field \in params.given /\ params[field] < 0
    IN  /\ ptLast.op = "calculate" =>
              LET a == ptLast.args
                  frequency == IF a.pattern = "zigzag" THEN 5 ELSE 2
              IN  IF negative(a.params, "speed") \/ negative(a.params, "amplitude")
                  THEN ptLast.result.threw
                  ELSE ptLast.result =
                           Calculate(a.pattern, a.currentPos, a.time,
                               [amplitude |-> Supplied(a.params, "amplitude", 50),
                                frequency |->
                                    Supplied(a.params, "frequency", frequency),
                                speed |-> Supplied(a.params, "speed", 2),
                                radius |-> Supplied(a.params, "radius", 50)])
        /\ ptLast.op = "SpreadShot" =>
              (ptLast.result.threw \/ ptSpreadCount = ptLast.args.spreadCount)

\* C33 (SpecPatterns).  Patterns are pure: a call of a pattern that follows
\* the same call on the same arguments returns the same result.
C33_PatternsPure ==
    ptLast.repeated => ptLast.result = ptLast.first

\* C39 (SpecWaveLive).  Wave liveness: an active wave whose update keeps
\* being called, whose callbacks do not throw and whose enemies are all
\* reported destroyed in the end spawns all enemyCount enemies and then
\* completes: update deactivates it and notifies onWaveComplete.
C39_WaveLiveness ==
    \A wave \in DOMAIN WaveConfigs :
        (wmIsWaveActive /\ wmCurrentWave = wave)
            ~> /\ wmCurrentWave = wave
               /\ wmEnemiesSpawned = WaveConfigs[wave].enemyCount
               /\ ~wmIsWaveActive
               /\ wmLast.completed

====
